---- MODULE Spec2Model ----
(***************************************************************************)
(* Orchestration core of the code-generation agents:                       *)
(*   - getAgentStub / getAgentState / cloneAgent   (worker/agents/index.ts)*)
(*   - selectTemplate                              (planning/templateSelector)*)
(*   - getTemplateForQuery                         (worker/agents/index.ts)*)
(*   - CodingAgentController.startCodeGeneration and its response stream.  *)
(*   - CodingAgentController.handleWebSocketConnection and                 *)
(*     connectToExistingAgent.                                             *)
(* Every await of the source is one step of the model; the replies of the  *)
(* collaborators (actor platform, sandbox service, AI inference, rate      *)
(* limiter) are inputs drawn from small sets.                              *)
(***************************************************************************)
EXTENDS Integers, Sequences, FiniteSets, TLC

VARIABLES
    \* ---- actor platform (environment) ----
    nsAvailable,     \* env.CodeGenObject is configured
    initd,           \* [Handles -> BOOLEAN]: what isInitialized() answers
    astate,          \* [Handles -> AgentState]: the state each actor owns
    calls,           \* log of the platform / actor RPCs the caller issued, in order
    \* ---- the request being served ----
    op,              \* which exported operation runs ("none" before a request)
    pc,              \* position inside it
    outcome,         \* "running" | "returned" | "threw"
    error,           \* the error thrown by the operation ("none" if none)
    result,          \* the handle an operation returned (NoStub if none)
    \* ---- getAgentStub's frame ----
    gid,             \* agentId argument
    gsearch,         \* searchInOtherJurisdictions argument
    gret,            \* where the caller continues
    j,               \* index into jurisdictions
    cand,            \* the stub of the current loop iteration
    gstub,           \* value returned by getAgentStub (NoStub while none)
    gerr,            \* error thrown by getAgentStub ("none" if none)
    \* ---- cloneAgent's frame ----
    agentInstance,   \* source stub
    newAgentId,
    newAgent,
    originalState,
    written,         \* sequence of <<handle, state>> passed to setState
    \* ---- startCodeGeneration's frame ----
    bodyOk,          \* request.json() parses
    query,           \* body.query (Undefined when the field is missing)
    user,            \* context.user ("anonymous" when absent)
    status,          \* HTTP status of the response returned (0 while none)
    message,         \* message of the error response ("none" if none)
    rateChecks,      \* calls of enforceAppCreationRateLimit
    agentId,         \* the generated agent ID
    cfgState,        \* getUserModelConfigs: idle | pending | ok | threw
    \* ---- getTemplateForQuery's frame ----
    rtState,         \* idle | running | returned | threw
    rtError,         \* error getTemplateForQuery threw
    templates,       \* templatesResponse.templates (names, in order)
    sandboxSessionId,
    templatesResponse,        \* what SandboxSdkClient.listTemplates() answered
    templateDetailsResponse,  \* what sandboxClient.getTemplateDetails(name) answered
    sbState,         \* getSandboxService: idle | pending | ok
    validated,       \* the selected name was looked up in templates
    detailsCalls,    \* the names passed to getTemplateDetails, in order
    \* ---- selectTemplate's frame ----
    selState,        \* idle | pending | returned | threw
    selection,       \* the TemplateSelection it returned
    selError,        \* the error it threw
    aiCalls,         \* calls of executeInference
    aiError,         \* what executeInference raised ("none" if nothing)
    \* ---- background initialization and the response stream ----
    initState,       \* agentInstance.initialize: idle | pending | fulfilled | rejected
    initCalls,       \* calls of agentInstance.initialize
    chunksSent,      \* calls of onBlueprintChunk
    wstate,          \* writable side: none | writable | closing | closed | errored
    wq,              \* chunks written and not yet transformed
    out,             \* lines enqueued on the readable side, in order
    rstate,          \* readable side: none | open | closed | cancelled
    endedBy,         \* none | terminate | close | cancel
    \* ---- handleWebSocketConnection's frame ----
    chatId,          \* context.pathParams.agentId (Undefined when missing)
    upgradeHeader,   \* request.headers.get('Upgrade') (Null when absent)
    originValid,     \* what validateWebSocketOrigin(request, env) answers
    routeCalls,      \* calls of routeAgentRequest
    routed,          \* routeAgentRequest: none | response | null | threw
    socket,          \* operations on the server end of the WebSocketPair, in order
    fwd,             \* the modifiedRequest passed to agentInstance.fetch
    response,        \* the Response the handler returned (NoResponse while none)
    \* ---- a second caller ----
    parked           \* the frame of the caller whose steps are not being taken now

agentVars == <<nsAvailable, initd, astate, calls, op, pc, outcome, error, result,
               gid, gsearch, gret, j, cand, gstub, gerr,
               agentInstance, newAgentId, newAgent, originalState, written>>


\* ------------------------------------------------------------------ bounds
MaxDevState == 2

\* --------------------------------------------------------------- constants
Undefined == "undefined"

\* A slip: the secondary region is searched first.
jurisdictionsEuFirst == <<"eu", "default">>

\* const jurisdictions = [undefined, 'eu'];   ("default" stands for undefined)
jurisdictions == <<"default", "eu">>

SourceId == "a1"
FreshIds == {"n1", "n2"}
Ids == {SourceId} \cup FreshIds
Jurisdictions == {"default", "eu"}

Handle(jur, id) == [jur |-> jur, id |-> id]
Handles == {Handle(jr, id) : jr \in Jurisdictions, id \in Ids}
NoStub == [jur |-> "none", id |-> "none"]

\* CodeGenState, restricted to the fields cloneAgent names plus the fields it
\* carries over through the spread (latestScreenshot, and "rest" for the others).
AgentStates ==
    [ sessionId            : {SourceId},
      sandboxInstanceId    : {Undefined, "sb1"},
      pendingUserInputs    : {<<>>, <<"u1">>},
      currentDevState      : 0..MaxDevState,
      generationPromise    : {Undefined, "p1"},
      shouldBeGenerating   : BOOLEAN,
      clientReportedErrors : {<<>>, <<"e1">>},
      latestScreenshot     : {Undefined, "img"},
      rest                 : {"default-actor"} ]

\* The state of an actor nobody has written to yet.
BlankState ==
    [ sessionId            |-> Undefined,
      sandboxInstanceId    |-> Undefined,
      pendingUserInputs    |-> <<>>,
      currentDevState      |-> 0,
      generationPromise    |-> Undefined,
      shouldBeGenerating   |-> FALSE,
      clientReportedErrors |-> <<>>,
      latestScreenshot     |-> Undefined,
      rest                 |-> "blank" ]

\* TemplateSelection (agents/schemas): null is the string Null here.
Null == "null"
NoSelection ==
    [ selectedTemplateName |-> Null, reasoning |-> "", useCase |-> Null,
      complexity |-> Null, styleSelection |-> Null, projectName |-> "" ]

Call(name, h, reply) == [name |-> name, jur |-> h.jur, id |-> h.id, reply |-> reply]

platformVars == <<nsAvailable, initd, astate>>
reqVars == <<op, pc, outcome, error, result>>
gFrame == <<gid, gsearch, gret, j, cand, gstub, gerr>>
cFrame == <<agentInstance, newAgentId, newAgent, originalState, written>>
sFrame == <<bodyOk, query, user, status, message, rateChecks, agentId, cfgState>>
rFrame == <<rtState, rtError, templates, sandboxSessionId,
           templatesResponse, templateDetailsResponse, sbState, validated, detailsCalls>>
selFrame == <<selState, selection, selError, aiCalls, aiError>>
bgVars == <<initState, initCalls, chunksSent>>
streamVars == <<wstate, wq, out, rstate, endedBy>>
wsFrame == <<chatId, upgradeHeader, originValid, routeCalls, routed, socket, fwd,
             response>>
\* Everything getAgentStub, getAgentState and cloneAgent leave alone.
genVars == <<sFrame, rFrame, selFrame, bgVars, streamVars, wsFrame, parked>>

\* The frame of a caller that has not called anything yet.
IdleFrame ==
    [ op |-> "none", pc |-> "idle", outcome |-> "running", error |-> "none",
      result |-> NoStub, gid |-> "none", gsearch |-> FALSE, gret |-> "none",
      j |-> 1, cand |-> NoStub, gstub |-> NoStub, gerr |-> "none",
      agentInstance |-> NoStub, newAgentId |-> "none", newAgent |-> NoStub,
      originalState |-> BlankState, written |-> <<>>, calls |-> <<>> ]

\* generateId(): an ID no caller has been given yet.
generateId ==
    IF "n1" \notin {newAgentId, agentId, parked.newAgentId} THEN "n1" ELSE "n2"

\* ------------------------------------------------------------ getAgentStub
\* The caller's call: enter getAgentStub(env, id, search, logger); the caller
\* continues at label ret when it returns or throws.
EnterGetAgentStub(id, searchFlag, ret) ==
    /\ gid' = id
    /\ gsearch' = searchFlag
    /\ gret' = ret
    /\ j' = 1
    /\ cand' = NoStub
    /\ gstub' = NoStub
    /\ gerr' = "none"
    /\ pc' = "g_entry"

\* A slip: the namespace is not looked at before the platform is called.
GEntrySkipsNamespaceCheck ==
    /\ pc = "g_entry"
    /\ gerr' = gerr
    /\ pc' = IF gsearch THEN "g_get" ELSE "g_direct"
    /\ UNCHANGED <<platformVars, calls, op, outcome, error, result,
                   gid, gsearch, gret, j, cand, gstub, cFrame, genVars>>

\* A slip: the jurisdictions are searched whatever the flag says.
GEntryAlwaysSearches ==
    /\ pc = "g_entry"
    /\ IF ~nsAvailable
         THEN /\ gerr' = "NamespaceUnavailable"
              /\ pc' = gret
         ELSE /\ gerr' = gerr
              /\ pc' = "g_get"
    /\ UNCHANGED <<platformVars, calls, op, outcome, error, result,
                   gid, gsearch, gret, j, cand, gstub, cFrame, genVars>>

\* if (!env.CodeGenObject) throw ...; if (searchInOtherJurisdictions) { for ... }
GEntry ==
    /\ pc = "g_entry"
    /\ IF ~nsAvailable
         THEN /\ gerr' = "NamespaceUnavailable"
              /\ pc' = gret
         ELSE /\ gerr' = gerr
              /\ pc' = IF gsearch THEN "g_get" ELSE "g_direct"
    /\ UNCHANGED <<platformVars, calls, op, outcome, error, result,
                   gid, gsearch, gret, j, cand, gstub, cFrame, genVars>>

\* End of one loop iteration without a return: next jurisdiction, or fall out
\* of the loop to the direct retrieval.
NextIteration ==
    IF j < Len(jurisdictions)
      THEN /\ j' = j + 1
           /\ pc' = "g_get"
      ELSE /\ j' = j
           /\ pc' = "g_direct"

\* A slip: a throwing lookup ends the whole search with that error.
GLoopGetAborts ==
    /\ pc = "g_get"
    /\ \E throws \in BOOLEAN :
         LET h == Handle(jurisdictions[j], gid) IN
         IF throws
           THEN /\ calls' = Append(calls, Call("get", h, "throw"))
                /\ cand' = NoStub
                /\ gerr' = "StubError"
                /\ pc' = gret
                /\ j' = j
           ELSE /\ calls' = Append(calls, Call("get", h, "ok"))
                /\ cand' = h
                /\ pc' = "g_isInit"
                /\ j' = j
                /\ gerr' = gerr
    /\ UNCHANGED <<platformVars, op, outcome, error, result,
                   gid, gsearch, gret, gstub, cFrame, genVars>>

\* const stub = await getAgentByName(env.CodeGenObject, agentId,
\*                                   {locationHint, jurisdiction});
\* a throw is caught by the loop's catch and logged.
GLoopGet ==
    /\ pc = "g_get"
    /\ \E throws \in BOOLEAN :
         LET h == Handle(jurisdictions[j], gid) IN
         IF throws
           THEN /\ calls' = Append(calls, Call("get", h, "throw"))
                /\ cand' = NoStub
                /\ NextIteration
           ELSE /\ calls' = Append(calls, Call("get", h, "ok"))
                /\ cand' = h
                /\ pc' = "g_isInit"
                /\ j' = j
    /\ UNCHANGED <<platformVars, op, outcome, error, result,
                   gid, gsearch, gret, gstub, gerr, cFrame, genVars>>

\* const isInitialized = await stub.isInitialized(); if (isInitialized) return stub
GLoopIsInitialized ==
    /\ pc = "g_isInit"
    /\ \E throws \in BOOLEAN :
         IF throws
           THEN /\ calls' = Append(calls, Call("isInitialized", cand, "throw"))
                /\ gstub' = gstub
                /\ NextIteration
           ELSE IF initd[cand]
             THEN /\ calls' = Append(calls, Call("isInitialized", cand, "true"))
                  /\ gstub' = cand
                  /\ pc' = gret
                  /\ j' = j
             ELSE /\ calls' = Append(calls, Call("isInitialized", cand, "false"))
                  /\ gstub' = gstub
                  /\ NextIteration
    /\ UNCHANGED <<platformVars, op, outcome, error, result,
                   gid, gsearch, gret, cand, gerr, cFrame, genVars>>

\* A slip: the search ends with nothing when no jurisdiction answered true.
GDirectReturnsNothing ==
    /\ pc = "g_direct"
    /\ \E throws \in BOOLEAN :
         IF gsearch
           THEN /\ calls' = calls
                /\ gstub' = NoStub
                /\ gerr' = gerr
           ELSE LET h == Handle("default", gid) IN
                IF throws
                  THEN /\ calls' = Append(calls, Call("getDirect", h, "throw"))
                       /\ gerr' = "StubError"
                       /\ gstub' = gstub
                  ELSE /\ calls' = Append(calls, Call("getDirect", h, "ok"))
                       /\ gstub' = h
                       /\ gerr' = gerr
    /\ pc' = gret
    /\ UNCHANGED <<platformVars, op, outcome, error, result,
                   gid, gsearch, gret, j, cand, cFrame, genVars>>

\* try { const stub = await getAgentByName(env.CodeGenObject, agentId,
\*       {locationHint}); return stub } catch (error) { throw error }
\* Reached with search off, and also when the loop ends without a return.
GDirect ==
    /\ pc = "g_direct"
    /\ \E throws \in BOOLEAN :
         LET h == Handle("default", gid) IN
         IF throws
           THEN /\ calls' = Append(calls, Call("getDirect", h, "throw"))
                /\ gerr' = "StubError"
                /\ gstub' = gstub
           ELSE /\ calls' = Append(calls, Call("getDirect", h, "ok"))
                /\ gstub' = h
                /\ gerr' = gerr
    /\ pc' = gret
    /\ UNCHANGED <<platformVars, op, outcome, error, result,
                   gid, gsearch, gret, j, cand, cFrame, genVars>>

\* A request: getAgentStub(env, SourceId, search, logger) called on its own.
CallGetAgentStub ==
    /\ op = "none"
    /\ \E s \in BOOLEAN :
         /\ op' = "getAgentStub"
         /\ EnterGetAgentStub(SourceId, s, "stub_done")
    /\ UNCHANGED <<platformVars, calls, outcome, error, result, cFrame, genVars>>

\* The caller receives what getAgentStub returned or threw.
StubDone ==
    /\ pc = "stub_done"
    /\ pc' = "done"
    /\ IF gerr # "none"
         THEN /\ outcome' = "threw"
              /\ error' = gerr
              /\ result' = result
         ELSE /\ outcome' = "returned"
              /\ error' = error
              /\ result' = gstub
    /\ UNCHANGED <<platformVars, calls, op, gFrame, cFrame, genVars>>

\* -------------------------------------------------------------- cloneAgent
\* A slip: the pending inputs of the source survive the clone.
newStateKeepsPending(original, id) ==
    [original EXCEPT !.sessionId = id,
                     !.sandboxInstanceId = Undefined,
                     !.currentDevState = 0,
                     !.generationPromise = Undefined,
                     !.shouldBeGenerating = FALSE,
                     !.clientReportedErrors = <<>>]

\* A slip: the commented-out reset of latestScreenshot is active.
newStateDropsScreenshot(original, id) ==
    [original EXCEPT !.sessionId = id,
                     !.sandboxInstanceId = Undefined,
                     !.pendingUserInputs = <<>>,
                     !.currentDevState = 0,
                     !.generationPromise = Undefined,
                     !.shouldBeGenerating = FALSE,
                     !.latestScreenshot = Undefined,
                     !.clientReportedErrors = <<>>]

\* const newState = { ...originalState, sessionId: newAgentId,
\*   sandboxInstanceId: undefined, pendingUserInputs: [], currentDevState: 0,
\*   generationPromise: undefined, shouldBeGenerating: false,
\*   clientReportedErrors: [] };
newState(original, id) ==
    [original EXCEPT !.sessionId = id,
                     !.sandboxInstanceId = Undefined,
                     !.pendingUserInputs = <<>>,
                     !.currentDevState = 0,
                     !.generationPromise = Undefined,
                     !.shouldBeGenerating = FALSE,
                     !.clientReportedErrors = <<>>]

\* The operation ends by throwing e.
Throw(e) ==
    /\ outcome' = "threw"
    /\ error' = e
    /\ pc' = "done"

\* const agentInstance = await getAgentStub(env, agentId, true, logger);
CallCloneAgent ==
    /\ op = "none"
    /\ op' = "cloneAgent"
    /\ EnterGetAgentStub(SourceId, TRUE, "c_check")
    /\ UNCHANGED <<platformVars, calls, outcome, error, result, cFrame, genVars>>

\* A slip: the handle that getAgentStub returned is trusted without asking it
\* whether it is initialized.
CloneCheckTrustsStub ==
    /\ pc = "c_check"
    /\ IF gerr # "none"
         THEN /\ Throw(gerr)
              /\ UNCHANGED <<calls, agentInstance>>
         ELSE IF gstub = NoStub
           THEN /\ Throw("AgentNotFound")
                /\ UNCHANGED <<calls, agentInstance>>
           ELSE /\ agentInstance' = gstub
                /\ pc' = "c_newid"
                /\ UNCHANGED <<calls, outcome, error>>
    /\ UNCHANGED <<platformVars, op, result, gFrame,
                   newAgentId, newAgent, originalState, written, genVars>>

\* if (!agentInstance || !await agentInstance.isInitialized())
\*     throw new Error(`Agent ${agentId} not found`);
CloneCheck ==
    /\ pc = "c_check"
    /\ IF gerr # "none"
         THEN /\ Throw(gerr)
              /\ UNCHANGED <<calls, agentInstance>>
         ELSE IF gstub = NoStub
           THEN /\ Throw("AgentNotFound")
                /\ UNCHANGED <<calls, agentInstance>>
           ELSE \E throws \in BOOLEAN :
                  /\ agentInstance' = gstub
                  /\ IF throws
                       THEN /\ calls' = Append(calls, Call("isInitialized", gstub, "throw"))
                            /\ Throw("RpcError")
                       ELSE IF initd[gstub]
                         THEN /\ calls' = Append(calls, Call("isInitialized", gstub, "true"))
                              /\ pc' = "c_newid"
                              /\ UNCHANGED <<outcome, error>>
                         ELSE /\ calls' = Append(calls, Call("isInitialized", gstub, "false"))
                              /\ Throw("AgentNotFound")
    /\ UNCHANGED <<platformVars, op, result, gFrame,
                   newAgentId, newAgent, originalState, written, genVars>>

\* const newAgentId = generateId();
\* const newAgent = await getAgentStub(env, newAgentId, false, logger);
CloneNewId ==
    /\ pc = "c_newid"
    /\ \E id \in {generateId} :
         /\ newAgentId' = id
         /\ EnterGetAgentStub(id, FALSE, "c_state")
    /\ UNCHANGED <<platformVars, calls, op, outcome, error, result,
                   agentInstance, newAgent, originalState, written, genVars>>

\* const originalState = await agentInstance.getFullState() as CodeGenState;
CloneGetFullState ==
    /\ pc = "c_state"
    /\ IF gerr # "none"
         THEN /\ Throw(gerr)
              /\ UNCHANGED <<calls, newAgent, originalState>>
         ELSE \E throws \in BOOLEAN :
                /\ newAgent' = gstub
                /\ IF throws
                     THEN /\ calls' = Append(calls, Call("getFullState", agentInstance, "throw"))
                          /\ Throw("RpcError")
                          /\ originalState' = originalState
                     ELSE /\ calls' = Append(calls, Call("getFullState", agentInstance, "ok"))
                          /\ originalState' = astate[agentInstance]
                          /\ pc' = "c_set"
                          /\ UNCHANGED <<outcome, error>>
    /\ UNCHANGED <<platformVars, op, result, gFrame,
                   agentInstance, newAgentId, written, genVars>>

\* A slip: the derived state is written to the source actor.
CloneSetStateOnSource ==
    /\ pc = "c_set"
    /\ \E throws \in BOOLEAN :
         IF throws
           THEN /\ calls' = Append(calls, Call("setState", agentInstance, "throw"))
                /\ Throw("RpcError")
                /\ UNCHANGED <<astate, written, result>>
           ELSE /\ calls' = Append(calls, Call("setState", agentInstance, "ok"))
                /\ astate' = [astate EXCEPT ![agentInstance] = newState(originalState, newAgentId)]
                /\ written' = Append(written, <<agentInstance, newState(originalState, newAgentId)>>)
                /\ result' = newAgent
                /\ outcome' = "returned"
                /\ pc' = "done"
                /\ error' = error
    /\ UNCHANGED <<nsAvailable, initd, op, gFrame,
                   agentInstance, newAgentId, newAgent, originalState, genVars>>

\* await newAgent.setState(newState); return {newAgentId, newAgent};
CloneSetState ==
    /\ pc = "c_set"
    /\ \E throws \in BOOLEAN :
         IF throws
           THEN /\ calls' = Append(calls, Call("setState", newAgent, "throw"))
                /\ Throw("RpcError")
                /\ UNCHANGED <<astate, written, result>>
           ELSE /\ calls' = Append(calls, Call("setState", newAgent, "ok"))
                /\ astate' = [astate EXCEPT ![newAgent] = newState(originalState, newAgentId)]
                /\ written' = Append(written, <<newAgent, newState(originalState, newAgentId)>>)
                /\ result' = newAgent
                /\ outcome' = "returned"
                /\ pc' = "done"
                /\ error' = error
    /\ UNCHANGED <<nsAvailable, initd, op, gFrame,
                   agentInstance, newAgentId, newAgent, originalState, genVars>>

\* ----------------------------------------------------------- getAgentState
\* const agentInstance = await getAgentStub(env, agentId, search, logger);
CallGetAgentState ==
    /\ op = "none"
    /\ \E s \in BOOLEAN :
         /\ op' = "getAgentState"
         /\ EnterGetAgentStub(SourceId, s, "s_state")
    /\ UNCHANGED <<platformVars, calls, outcome, error, result, cFrame, genVars>>

\* return agentInstance.getFullState() as CodeGenState;
GetAgentStateRead ==
    /\ pc = "s_state"
    /\ IF gerr # "none"
         THEN /\ Throw(gerr)
              /\ UNCHANGED <<calls, originalState, result>>
         ELSE \E throws \in BOOLEAN :
                IF throws
                  THEN /\ calls' = Append(calls, Call("getFullState", gstub, "throw"))
                       /\ Throw("RpcError")
                       /\ UNCHANGED <<originalState, result>>
                  ELSE /\ calls' = Append(calls, Call("getFullState", gstub, "ok"))
                       /\ originalState' = astate[gstub]
                       /\ result' = gstub
                       /\ outcome' = "returned"
                       /\ pc' = "done"
                       /\ error' = error
    /\ UNCHANGED <<platformVars, op, gFrame,
                   agentInstance, newAgentId, newAgent, written, genVars>>

\* A collaborator that was not asked yet.
NoAnswer == [got |-> "none", success |-> FALSE, error |-> Undefined, details |-> FALSE]

\* The collaborator answered nothing (undefined).
MissingAnswer == [got |-> "missing", success |-> FALSE, error |-> Undefined,
                  details |-> FALSE]

\* {success, error?, templateDetails?} as a collaborator answers it.
Answers ==
    [got : {"answer"}, success : BOOLEAN, error : {Undefined, "e1"}, details : BOOLEAN]

\* listTemplates(): nothing, or {success, templates, error?}; an error text
\* comes with a failure only.
ListAnswers ==
    {MissingAnswer} \cup {a \in Answers : ~a.details /\ (a.success => a.error = Undefined)}

\* getTemplateDetails(name): {success, templateDetails?, error?}.
DetailsAnswers ==
    {a \in Answers : (a.details => a.success) /\ (a.details => a.error = Undefined)}

\* Nothing of startCodeGeneration has run.
GenIdle ==
    /\ bodyOk = TRUE
    /\ query = Undefined
    /\ user = "anonymous"
    /\ status = 0
    /\ message = "none"
    /\ rateChecks = 0
    /\ agentId = "none"
    /\ cfgState = "idle"
    /\ rtState = "idle"
    /\ rtError = "none"
    /\ templates = <<>>
    /\ sandboxSessionId = "none"
    /\ templatesResponse = NoAnswer
    /\ templateDetailsResponse = NoAnswer
    /\ sbState = "idle"
    /\ validated = FALSE
    /\ detailsCalls = <<>>
    /\ selState = "idle"
    /\ selection = NoSelection
    /\ selError = "none"
    /\ aiCalls = 0
    /\ aiError = "none"
    /\ initState = "idle"
    /\ initCalls = 0
    /\ chunksSent = 0
    /\ wstate = "none"
    /\ wq = <<>>
    /\ out = <<>>
    /\ rstate = "none"
    /\ endedBy = "none"

\* No Response yet.
NoResponse == [status |-> 0, body |-> "none", webSocket |-> "none", from |-> "none"]

\* No request was forwarded.
NoRequest == [namespace |-> "none", room |-> "none"]

\* Nothing of handleWebSocketConnection has run.
WsIdle ==
    /\ chatId = Undefined
    /\ upgradeHeader = "null"
    /\ originValid = FALSE
    /\ routeCalls = 0
    /\ routed = "none"
    /\ socket = <<>>
    /\ fwd = NoRequest
    /\ response = NoResponse

\* The caller whose steps were being taken is suspended at its await, and the
\* steps of the other caller are taken from here on.
Switch ==
    /\ parked' = [ op |-> op, pc |-> pc, outcome |-> outcome, error |-> error,
                   result |-> result, gid |-> gid, gsearch |-> gsearch,
                   gret |-> gret, j |-> j, cand |-> cand, gstub |-> gstub,
                   gerr |-> gerr, agentInstance |-> agentInstance,
                   newAgentId |-> newAgentId, newAgent |-> newAgent,
                   originalState |-> originalState, written |-> written,
                   calls |-> calls ]
    /\ op' = parked.op
    /\ pc' = parked.pc
    /\ outcome' = parked.outcome
    /\ error' = parked.error
    /\ result' = parked.result
    /\ gid' = parked.gid
    /\ gsearch' = parked.gsearch
    /\ gret' = parked.gret
    /\ j' = parked.j
    /\ cand' = parked.cand
    /\ gstub' = parked.gstub
    /\ gerr' = parked.gerr
    /\ agentInstance' = parked.agentInstance
    /\ newAgentId' = parked.newAgentId
    /\ newAgent' = parked.newAgent
    /\ originalState' = parked.originalState
    /\ written' = parked.written
    /\ calls' = parked.calls
    /\ UNCHANGED <<platformVars, sFrame, rFrame, selFrame, bgVars,
                   streamVars, wsFrame>>

\* ------------------------------------------------- specification (agents)
\* The platform before a request: the source ID may have an initialized actor
\* in either jurisdiction, each owning its own state; fresh IDs have none.
InitAgents ==
    /\ nsAvailable \in BOOLEAN
    /\ \E d, e \in BOOLEAN :
         initd = [h \in Handles |->
                    IF h.id = SourceId
                      THEN (IF h.jur = "default" THEN d ELSE e)
                      ELSE FALSE]
    /\ \E s \in AgentStates :
         astate = [h \in Handles |->
                     IF h.id = SourceId
                       THEN (IF h.jur = "default" THEN s
                             ELSE [s EXCEPT !.rest = "eu-actor"])
                       ELSE BlankState]
    /\ calls = <<>>
    /\ op = "none"
    /\ pc = "idle"
    /\ outcome = "running"
    /\ error = "none"
    /\ result = NoStub
    /\ gid = "none"
    /\ gsearch = FALSE
    /\ gret = "none"
    /\ j = 1
    /\ cand = NoStub
    /\ gstub = NoStub
    /\ gerr = "none"
    /\ agentInstance = NoStub
    /\ newAgentId = "none"
    /\ newAgent = NoStub
    /\ originalState = BlankState
    /\ written = <<>>
    /\ GenIdle
    /\ WsIdle
    /\ parked = IdleFrame

NextAgents ==
    \/ CallGetAgentStub
    \/ CallGetAgentState
    \/ CallCloneAgent
    \/ GEntry
    \/ GLoopGet
    \/ GLoopIsInitialized
    \/ GDirect
    \/ StubDone
    \/ GetAgentStateRead
    \/ CloneCheck
    \/ CloneNewId
    \/ CloneGetFullState
    \/ CloneSetState

vars == <<agentVars, genVars>>

SpecAgents == InitAgents /\ [][NextAgents]_vars

\* ========================================================================
\* selectTemplate, getTemplateForQuery, startCodeGeneration
\* ========================================================================
MaxTemplates == 2
MaxChunks == 2

TemplateNames == {"t1", "t2"}
TemplateLists == UNION {[1..n -> TemplateNames] : n \in 0..MaxTemplates}
SessionIds == {"s1"}
Queries == {Undefined, "", "q1"}
Users == {"anonymous", "u1"}
ChunkTexts == {"c1", "terminate"}

\* What the variables untouched by startCodeGeneration are.
idleAgent == <<initd, astate, outcome, error, result, cFrame, wsFrame, parked>>

\* A slip: only a missing value counts, an empty string passes.
FalsyOnlyMissing(x) == x \in {Undefined, Null}

\* !x for the strings and undefined/null values of the model.
Falsy(x) == x \in {Undefined, Null, ""}

\* A slip: the upstream error text is dropped from the message.
UpstreamTextDropped(resp) == "Unknown error"

\* ${response?.error || 'Unknown error'}
UpstreamText(resp) == IF Falsy(resp.error) THEN "Unknown error" ELSE resp.error

\* return { selectedTemplateName: null, reasoning: "No templates were available
\* to choose from.", useCase: null, complexity: null, styleSelection: null,
\* projectName: '' };
EmptyFallback ==
    [ selectedTemplateName |-> Null,
      reasoning |-> "No templates were available to choose from.",
      useCase |-> Null, complexity |-> Null, styleSelection |-> Null,
      projectName |-> "" ]

\* A slip: the fallback picks a name of its own.
ErrorFallbackPicksDefault ==
    [ selectedTemplateName |-> "t1",
      reasoning |-> "An error occurred during the template selection process.",
      useCase |-> Null, complexity |-> Null, styleSelection |-> Null,
      projectName |-> "" ]

\* return { selectedTemplateName: null, reasoning: "An error occurred during the
\* template selection process.", useCase: null, complexity: null,
\* styleSelection: null, projectName: '' };
ErrorFallback ==
    [ selectedTemplateName |-> Null,
      reasoning |-> "An error occurred during the template selection process.",
      useCase |-> Null, complexity |-> Null, styleSelection |-> Null,
      projectName |-> "" ]

\* The objects executeInference may return under TemplateSelectionSchema: the
\* schema fixes the shape, not the name, which may be null, empty or a name that
\* is not among the candidates.
AISelections ==
    [ selectedTemplateName : TemplateNames \cup {"ghost", Null, ""},
      reasoning : {"fits the request"},
      useCase : {"General"}, complexity : {"simple"},
      styleSelection : {"Minimalist Design"},
      projectName : {"my-project"} ]

\* What executeInference may raise.
AIErrors == {"RateLimitExceededError", "SecurityError", "OtherError"}

\* A slip: every error is rethrown.
RethrownAlways(kind) == TRUE

\* A slip: every error is swallowed into the fallback.
RethrownNever(kind) == FALSE

\* error instanceof RateLimitExceededError || error instanceof SecurityError
Rethrown(kind) == kind \in {"RateLimitExceededError", "SecurityError"}

\* A slip: the AI is asked even when there is nothing to choose from.
NoCandidatesNever(ts) == FALSE

\* availableTemplates.length === 0
NoCandidates(ts) == Len(ts) = 0

\* A slip: a name that matches nothing falls back to the first template.
FindTemplateOrFirst(ts, name) ==
    IF \E i \in 1..Len(ts) : ts[i] = name
      THEN CHOOSE i \in 1..Len(ts) :
             /\ ts[i] = name
             /\ \A k \in 1..(i-1) : ts[k] # name
      ELSE IF Len(ts) > 0 THEN 1 ELSE 0

\* templatesResponse.templates.find(template => template.name === name):
\* the index of the first match, 0 for undefined.
FindTemplate(ts, name) ==
    IF \E i \in 1..Len(ts) : ts[i] = name
      THEN CHOOSE i \in 1..Len(ts) :
             /\ ts[i] = name
             /\ \A k \in 1..(i-1) : ts[k] # name
      ELSE 0

\* ---- the chunks written to the stream and their JSON lines ----
StringChunk(str) == [t |-> "string", kind |-> "string", text |-> str]
ObjectChunk(kind, text) == [t |-> "object", kind |-> kind, text |-> text]
\* const initialResponse = { message: 'Code generation started', agentId, ... }
InitialResponse(id) == ObjectChunk("initial", id)
\* {chunk}
BlueprintChunk(text) == ObjectChunk("chunk", text)
\* {error: `Agent initialization failed: ${...}`}
ErrorEvent(text) == ObjectChunk("error", "Agent initialization failed: " \o text)

\* JSON.stringify(chunk) + '\n'
JSONLine(c) ==
    IF c.t = "string"
      THEN "\"" \o c.text \o "\"\n"
      ELSE CASE c.kind = "initial" ->
                  "{\"message\":\"Code generation started\",\"agentId\":\""
                     \o c.text \o "\"}\n"
             [] c.kind = "chunk" -> "{\"chunk\":\"" \o c.text \o "\"}\n"
             [] c.kind = "error" -> "{\"error\":\"" \o c.text \o "\"}\n"

\* A slip: the sentinel is compared after encoding, so it never matches.
IsSentinelNever(c) == FALSE

\* A slip: the comparison looks at the text carried by the chunk, whatever
\* its type.
IsSentinelByText(c) == c.text = "terminate"

\* chunk === "terminate"
IsSentinel(c) == c.t = "string" /\ c.text = "terminate"

\* writer.write(c): queued while the writable side accepts writes, otherwise
\* the returned promise rejects and nothing is queued.
WriterWrite(q, ws, c) == IF ws = "writable" THEN Append(q, c) ELSE q
\* writer.close()
WriterClose(ws) == IF ws = "writable" THEN "closing" ELSE ws

\* ----------------------------------------------------- startCodeGeneration
\* The handler answers with an error response.
Respond(code, msg) ==
    /\ status' = code
    /\ message' = msg
    /\ pc' = "done"

\* A request arrives: its body, its query field and its user are inputs.
CallStartCodeGeneration ==
    /\ op = "none"
    /\ op' = "startCodeGeneration"
    /\ pc' = "s_parse"
    /\ \E b \in BOOLEAN, q \in Queries, u \in Users :
         /\ (~b => q = Undefined)
         /\ bodyOk' = b
         /\ query' = q
         /\ user' = u
    /\ UNCHANGED <<nsAvailable, idleAgent, calls, gFrame,
                   status, message, rateChecks, agentId, cfgState,
                   rFrame, selFrame, bgVars, streamVars>>

\* body = await request.json()  (catch: 400);  if (!query) return 400;
\* const { readable, writable } = new TransformStream(...); getWriter()
SParse ==
    /\ pc = "s_parse"
    /\ IF ~bodyOk
         THEN /\ Respond(400, "Invalid JSON in request body")
              /\ UNCHANGED <<wstate, rstate>>
         ELSE IF Falsy(query)
           THEN /\ Respond(400, "Missing \"query\" field in request body")
                /\ UNCHANGED <<wstate, rstate>>
           ELSE /\ wstate' = "writable"
                /\ rstate' = "open"
                /\ pc' = "s_rate"
                /\ UNCHANGED <<status, message>>
    /\ UNCHANGED <<nsAvailable, idleAgent, calls, op, gFrame,
                   bodyOk, query, user, rateChecks, agentId, cfgState,
                   rFrame, selFrame, bgVars, wq, out, endedBy>>

\* A slip: the rate limit is enforced for every request.
AuthenticatedAlways(u) == TRUE

\* if (user)   (context.user is absent for an anonymous request)
Authenticated(u) == u # "anonymous"

\* if (user) { try { await RateLimitService.enforceAppCreationRateLimit(...) }
\*             catch (error) { return createErrorResponse(error, 429) } }
SRateLimit ==
    /\ pc = "s_rate"
    /\ IF ~Authenticated(user)
         THEN /\ pc' = "s_agent"
              /\ UNCHANGED <<rateChecks, status, message>>
         ELSE /\ rateChecks' = rateChecks + 1
              /\ \E passes \in BOOLEAN :
                   IF passes
                     THEN /\ pc' = "s_agent"
                          /\ UNCHANGED <<status, message>>
                     ELSE Respond(429, "Rate limit exceeded")
    /\ UNCHANGED <<nsAvailable, idleAgent, calls, op, gFrame,
                   bodyOk, query, user, agentId, cfgState,
                   rFrame, selFrame, bgVars, streamVars>>

\* const agentId = generateId();
\* [userConfigsRecord, agentInstance] = await Promise.all([
\*     user ? modelConfigService.getUserModelConfigs(user.id) : Promise.resolve({}),
\*     getAgentStub(env, agentId, false, this.logger) ]);
SAgent ==
    /\ pc = "s_agent"
    /\ \E id \in {generateId} :
         /\ agentId' = id
         /\ EnterGetAgentStub(id, FALSE, "s_join")
    /\ cfgState' = IF user = "anonymous" THEN "ok" ELSE "pending"
    /\ UNCHANGED <<nsAvailable, idleAgent, calls, op,
                   bodyOk, query, user, status, message, rateChecks,
                   rFrame, selFrame, bgVars, streamVars>>

\* getUserModelConfigs settles.
CfgSettle ==
    /\ cfgState = "pending"
    /\ \E ok \in BOOLEAN : cfgState' = IF ok THEN "ok" ELSE "threw"
    /\ UNCHANGED <<nsAvailable, idleAgent, calls, op, pc, gFrame,
                   bodyOk, query, user, status, message, rateChecks, agentId,
                   rFrame, selFrame, bgVars, streamVars>>

\* A slip: the handler goes on as soon as the stub is there, with the
\* configuration fetch still pending.
SJoinIgnoresConfig ==
    /\ pc = "s_join"
    /\ IF gerr # "none" \/ cfgState = "threw"
         THEN /\ Respond(500, "Failed to initialize agent")
              /\ UNCHANGED rtState
         ELSE /\ pc' = "r_list"
              /\ rtState' = "running"
              /\ UNCHANGED <<status, message>>
    /\ UNCHANGED <<nsAvailable, idleAgent, calls, op, gFrame,
                   bodyOk, query, user, rateChecks, agentId, cfgState,
                   rtError, templates, sandboxSessionId, templatesResponse,
                   templateDetailsResponse, sbState, validated,
                   detailsCalls, selFrame, bgVars, streamVars>>

\* The Promise.all settles: a rejection of either member is caught and answered
\* with 500; otherwise getTemplateForQuery is called.
SJoin ==
    /\ pc = "s_join"
    /\ gerr = "none" => cfgState # "pending"
    /\ IF gerr # "none" \/ cfgState = "threw"
         THEN /\ Respond(500, "Failed to initialize agent")
              /\ UNCHANGED rtState
         ELSE /\ pc' = "r_list"
              /\ rtState' = "running"
              /\ UNCHANGED <<status, message>>
    /\ UNCHANGED <<nsAvailable, idleAgent, calls, op, gFrame,
                   bodyOk, query, user, rateChecks, agentId, cfgState,
                   rtError, templates, sandboxSessionId, templatesResponse,
                   templateDetailsResponse, sbState, validated,
                   detailsCalls, selFrame, bgVars, streamVars>>

\* ----------------------------------------------------- getTemplateForQuery
\* getTemplateForQuery throws e; its caller continues in its catch.
RThrow(e) ==
    /\ rtState' = "threw"
    /\ rtError' = e
    /\ pc' = "s_template"

\* const templatesResponse = await SandboxSdkClient.listTemplates();
\* if (!templatesResponse || !templatesResponse.success) throw ...
RList ==
    /\ pc = "r_list"
    /\ \E resp \in ListAnswers :
         /\ templatesResponse' = resp
         /\ IF resp.got = "answer" /\ resp.success
              THEN /\ \E ts \in TemplateLists : templates' = ts
                   /\ pc' = "r_fork"
                   /\ UNCHANGED <<rtState, rtError>>
              ELSE /\ RThrow("Failed to fetch templates from sandbox service: "
                                \o UpstreamText(resp))
                   /\ UNCHANGED templates
    /\ UNCHANGED <<nsAvailable, idleAgent, calls, op, gFrame, sFrame,
                   sandboxSessionId, templateDetailsResponse, sbState, validated, detailsCalls,
                   selFrame, bgVars, streamVars>>

\* const sandboxSessionId = generateId();
\* Promise.all([selectTemplate({...}), getSandboxService(sandboxSessionId)]):
\* selectTemplate runs up to its first await (the empty-list return, or the
\* call of executeInference), then getSandboxService is called.
RFork ==
    /\ pc = "r_fork"
    /\ \E sid \in SessionIds : sandboxSessionId' = sid
    /\ IF NoCandidates(templates)
         THEN /\ selState' = "returned"
              /\ selection' = EmptyFallback
              /\ aiCalls' = aiCalls
         ELSE /\ selState' = "pending"
              /\ selection' = selection
              /\ aiCalls' = aiCalls + 1
    /\ sbState' = "pending"
    /\ pc' = "r_join"
    /\ UNCHANGED <<nsAvailable, idleAgent, calls, op, gFrame, sFrame,
                   rtState, rtError, templates, templatesResponse,
                   templateDetailsResponse, validated, detailsCalls,
                   selError, aiError, bgVars, streamVars>>

\* const { object: selection } = await executeInference(...); return selection;
AIReturn ==
    /\ selState = "pending"
    /\ \E sel \in AISelections : selection' = sel
    /\ selState' = "returned"
    /\ UNCHANGED <<nsAvailable, idleAgent, calls, op, pc, gFrame, sFrame, rFrame,
                   selError, aiCalls, aiError, bgVars, streamVars>>

\* catch (error) { if (error instanceof RateLimitExceededError ||
\*   error instanceof SecurityError) throw error;  return { fallback } }
AIThrow ==
    /\ selState = "pending"
    /\ \E kind \in AIErrors :
         /\ aiError' = kind
         /\ IF Rethrown(kind)
              THEN /\ selState' = "threw"
                   /\ selError' = kind
                   /\ selection' = selection
              ELSE /\ selState' = "returned"
                   /\ selection' = ErrorFallback
                   /\ selError' = selError
    /\ UNCHANGED <<nsAvailable, idleAgent, calls, op, pc, gFrame, sFrame, rFrame,
                   aiCalls, bgVars, streamVars>>

\* getSandboxService(sandboxSessionId) yields the sandbox client.
SandboxReady ==
    /\ sbState = "pending"
    /\ sbState' = "ok"
    /\ UNCHANGED <<nsAvailable, idleAgent, calls, op, pc, gFrame, sFrame,
                   rtState, rtError, templates, sandboxSessionId, templatesResponse,
                   templateDetailsResponse, validated,
                   detailsCalls, selFrame, bgVars, streamVars>>

\* getSandboxService(sandboxSessionId) rejects: no sandbox client.
SandboxFail ==
    /\ sbState = "pending"
    /\ sbState' = "threw"
    /\ UNCHANGED <<nsAvailable, idleAgent, calls, op, pc, gFrame, sFrame,
                   rtState, rtError, templates, sandboxSessionId, templatesResponse,
                   templateDetailsResponse, validated,
                   detailsCalls, selFrame, bgVars, streamVars>>

\* The errors the Promise.all can reject with: that of the member that
\* rejected first (either one, when both have rejected by now).
AllRejections ==
    (IF selState = "threw" THEN {selError} ELSE {})
      \cup (IF sbState = "threw" THEN {"SandboxError"} ELSE {})

\* A slip: the selection alone is awaited, the sandbox client is not.
RJoinIgnoresSandbox ==
    /\ pc = "r_join"
    /\ selState \in {"threw", "returned"}
    /\ IF selState = "threw"
         THEN /\ RThrow(selError)
              /\ UNCHANGED <<validated, detailsCalls>>
         ELSE /\ validated' = TRUE
              /\ IF Falsy(selection.selectedTemplateName)
                   THEN /\ RThrow("No suitable template found for code generation")
                        /\ UNCHANGED detailsCalls
                   ELSE LET i == FindTemplate(templates, selection.selectedTemplateName) IN
                        IF i = 0
                          THEN /\ RThrow("Selected template not found in available templates")
                               /\ UNCHANGED detailsCalls
                          ELSE /\ detailsCalls' = Append(detailsCalls, templates[i])
                               /\ pc' = "r_details"
                               /\ UNCHANGED <<rtState, rtError>>
    /\ UNCHANGED <<nsAvailable, idleAgent, calls, op, gFrame, sFrame,
                   templates, sandboxSessionId, templatesResponse,
                   templateDetailsResponse, sbState,
                   selFrame, bgVars, streamVars>>

\* The Promise.all settles: it rejects as soon as a member rejects and
\* fulfils when both members have. Then
\*   if (!analyzeQueryResponse.selectedTemplateName) throw ...
\*   const selectedTemplate = templates.find(t => t.name === name);
\*   if (!selectedTemplate) throw ...
\*   await sandboxClient.getTemplateDetails(selectedTemplate.name)
RJoin ==
    /\ pc = "r_join"
    /\ \/ AllRejections # {}
       \/ selState = "returned" /\ sbState = "ok"
    /\ IF AllRejections # {}
         THEN /\ \E e \in AllRejections : RThrow(e)
              /\ UNCHANGED <<validated, detailsCalls>>
         ELSE /\ validated' = TRUE
              /\ IF Falsy(selection.selectedTemplateName)
                   THEN /\ RThrow("No suitable template found for code generation")
                        /\ UNCHANGED detailsCalls
                   ELSE LET i == FindTemplate(templates, selection.selectedTemplateName) IN
                        IF i = 0
                          THEN /\ RThrow("Selected template not found in available templates")
                               /\ UNCHANGED detailsCalls
                          ELSE /\ detailsCalls' = Append(detailsCalls, templates[i])
                               /\ pc' = "r_details"
                               /\ UNCHANGED <<rtState, rtError>>
    /\ UNCHANGED <<nsAvailable, idleAgent, calls, op, gFrame, sFrame,
                   templates, sandboxSessionId, templatesResponse,
                   templateDetailsResponse, sbState,
                   selFrame, bgVars, streamVars>>

\* const templateDetailsResponse = await sandboxClient.getTemplateDetails(name);
\* if (!response.success || !response.templateDetails) throw ...
\* return { sandboxSessionId, templateDetails, selection: analyzeQueryResponse };
RDetails ==
    /\ pc = "r_details"
    /\ \E resp \in DetailsAnswers :
         /\ templateDetailsResponse' = resp
         /\ IF resp.success /\ resp.details
              THEN /\ rtState' = "returned"
                   /\ pc' = "s_template"
                   /\ UNCHANGED rtError
              ELSE RThrow("Failed to fetch template details: " \o UpstreamText(resp))
    /\ UNCHANGED <<nsAvailable, idleAgent, calls, op, gFrame, sFrame,
                   templates, sandboxSessionId, templatesResponse, sbState, validated, detailsCalls,
                   selFrame, bgVars, streamVars>>

\* A slip: the initial event is written and initialize is called before the
\* result of getTemplateForQuery is looked at.
STemplateInitializesFirst ==
    /\ pc = "s_template"
    /\ wq' = WriterWrite(wq, wstate, InitialResponse(agentId))
    /\ initState' = "pending"
    /\ initCalls' = initCalls + 1
    /\ calls' = Append(calls, Call("initialize", gstub, "pending"))
    /\ IF rtState = "threw"
         THEN Respond(500, "Failed to get template for query: " \o rtError)
         ELSE /\ status' = 200
              /\ message' = message
              /\ pc' = "done"
    /\ UNCHANGED <<nsAvailable, idleAgent, op, gFrame,
                   bodyOk, query, user, rateChecks, agentId, cfgState,
                   rFrame, selFrame, chunksSent, wstate, out, rstate, endedBy>>

\* A slip: the handler awaits agentPromise before it returns the response.
STemplateAwaitsInitialize ==
    /\ pc = "s_template"
    /\ IF rtState = "threw"
         THEN /\ Respond(500, "Failed to get template for query: " \o rtError)
              /\ UNCHANGED <<wq, wstate, initState, initCalls, calls>>
         ELSE /\ wq' = Append(Append(wq, InitialResponse(agentId)), StringChunk("terminate"))
              /\ wstate' = "closing"
              /\ initState' = "fulfilled"
              /\ initCalls' = initCalls + 1
              /\ calls' = Append(calls, Call("initialize", gstub, "pending"))
              /\ status' = 200
              /\ message' = message
              /\ pc' = "done"
    /\ UNCHANGED <<nsAvailable, idleAgent, op, gFrame,
                   bodyOk, query, user, rateChecks, agentId, cfgState,
                   rFrame, selFrame, chunksSent, out, rstate, endedBy>>

\* ------------------------------------- startCodeGeneration, after the template
\* catch (error) { return createErrorResponse(`Failed to get template ...`, 500) }
\* otherwise, without an await in between:
\*   writer.write(initialResponse);
\*   const agentPromise = agentInstance.initialize(agentInitParams, mode);
\*   agentPromise.then(...).catch(...);
\*   return new Response(readable, { status: 200, ... });
STemplate ==
    /\ pc = "s_template"
    /\ IF rtState = "threw"
         THEN /\ Respond(500, "Failed to get template for query: " \o rtError)
              /\ UNCHANGED <<wq, initState, initCalls, calls>>
         ELSE /\ wq' = WriterWrite(wq, wstate, InitialResponse(agentId))
              /\ initState' = "pending"
              /\ initCalls' = initCalls + 1
              /\ calls' = Append(calls, Call("initialize", gstub, "pending"))
              /\ status' = 200
              /\ message' = message
              /\ pc' = "done"
    /\ UNCHANGED <<nsAvailable, idleAgent, op, gFrame,
                   bodyOk, query, user, rateChecks, agentId, cfgState,
                   rFrame, selFrame, chunksSent, wstate, out, rstate, endedBy>>

\* onBlueprintChunk: (chunk: string) => { writer.write({chunk}); }
\* The actor calls it any number of times once initialize was called.
OnBlueprintChunk ==
    /\ initState # "idle"
    /\ chunksSent < MaxChunks
    /\ chunksSent' = chunksSent + 1
    /\ \E text \in ChunkTexts :
         wq' = WriterWrite(wq, wstate, BlueprintChunk(text))
    /\ UNCHANGED <<nsAvailable, idleAgent, calls, op, pc, gFrame, sFrame, rFrame,
                   selFrame, initState, initCalls, wstate, out, rstate, endedBy>>

\* agentPromise.then(async (_state) => { writer.write("terminate"); writer.close(); })
InitFulfilled ==
    /\ initState = "pending"
    /\ initState' = "fulfilled"
    /\ wq' = WriterWrite(wq, wstate, StringChunk("terminate"))
    /\ wstate' = WriterClose(wstate)
    /\ UNCHANGED <<nsAvailable, idleAgent, calls, op, pc, gFrame, sFrame, rFrame,
                   selFrame, initCalls, chunksSent, out, rstate, endedBy>>

\* A slip: the catch handler writes the error event and leaves the writer open.
InitRejectedLeavesOpen ==
    /\ initState = "pending"
    /\ initState' = "rejected"
    /\ wq' = WriterWrite(wq, wstate, ErrorEvent("boom"))
    /\ UNCHANGED <<nsAvailable, idleAgent, calls, op, pc, gFrame, sFrame, rFrame,
                   selFrame, initCalls, chunksSent, wstate, out, rstate, endedBy>>

\* .catch((error) => { writer.write({error: `Agent initialization failed: ...`});
\*                     writer.close(); })
InitRejected ==
    /\ initState = "pending"
    /\ initState' = "rejected"
    /\ wq' = WriterWrite(wq, wstate, ErrorEvent("boom"))
    /\ wstate' = WriterClose(wstate)
    /\ UNCHANGED <<nsAvailable, idleAgent, calls, op, pc, gFrame, sFrame, rFrame,
                   selFrame, initCalls, chunksSent, out, rstate, endedBy>>

\* transform(chunk, controller) { if (chunk === "terminate") controller.terminate();
\*   else controller.enqueue(new TextEncoder().encode(JSON.stringify(chunk) + '\n')) }
\* It runs on the oldest queued chunk once the body of the response is read.
\* controller.terminate() closes the readable side and errors the writable side.
Transform ==
    /\ status = 200
    /\ rstate = "open"
    /\ wstate \in {"writable", "closing"}
    /\ wq # <<>>
    /\ IF IsSentinel(Head(wq))
         THEN /\ rstate' = "closed"
              /\ endedBy' = "terminate"
              /\ wstate' = "errored"
              /\ wq' = <<>>
              /\ out' = out
         ELSE /\ out' = Append(out, JSONLine(Head(wq)))
              /\ wq' = Tail(wq)
              /\ UNCHANGED <<rstate, endedBy, wstate>>
    /\ UNCHANGED <<nsAvailable, idleAgent, calls, op, pc, gFrame, sFrame, rFrame,
                   selFrame, bgVars>>

\* The close requested by writer.close() completes once the queue is drained:
\* the readable side closes.
StreamClose ==
    /\ status = 200
    /\ rstate = "open"
    /\ wstate = "closing"
    /\ wq = <<>>
    /\ wstate' = "closed"
    /\ rstate' = "closed"
    /\ endedBy' = "close"
    /\ UNCHANGED <<nsAvailable, idleAgent, calls, op, pc, gFrame, sFrame, rFrame,
                   selFrame, bgVars, wq, out>>

\* A slip: a cancelled body aborts the initialization it was fed by.
ClientCancelAbortsInitialize ==
    /\ status = 200
    /\ rstate = "open"
    /\ rstate' = "cancelled"
    /\ endedBy' = "cancel"
    /\ wstate' = "errored"
    /\ wq' = <<>>
    /\ initState' = IF initState = "pending" THEN "rejected" ELSE initState
    /\ calls' = IF initState = "pending"
                  THEN Append(calls, Call("cancel", gstub, "ok"))
                  ELSE calls
    /\ UNCHANGED <<nsAvailable, idleAgent, op, pc, gFrame, sFrame, rFrame,
                   selFrame, initCalls, chunksSent, out>>

\* The client goes away: the body is cancelled, which errors the writable side.
\* The stream is built without a cancel hook and the request's signal is not
\* observed, so nothing else changes.
ClientCancel ==
    /\ status = 200
    /\ rstate = "open"
    /\ rstate' = "cancelled"
    /\ endedBy' = "cancel"
    /\ wstate' = "errored"
    /\ wq' = <<>>
    /\ UNCHANGED <<nsAvailable, idleAgent, calls, op, pc, gFrame, sFrame, rFrame,
                   selFrame, bgVars, out>>

\* ---------------------------------------------- specification (generation)
InitGen ==
    /\ nsAvailable \in BOOLEAN
    /\ initd = [h \in Handles |-> FALSE]
    /\ astate = [h \in Handles |-> BlankState]
    /\ calls = <<>>
    /\ op = "none"
    /\ pc = "idle"
    /\ outcome = "running"
    /\ error = "none"
    /\ result = NoStub
    /\ gid = "none"
    /\ gsearch = FALSE
    /\ gret = "none"
    /\ j = 1
    /\ cand = NoStub
    /\ gstub = NoStub
    /\ gerr = "none"
    /\ agentInstance = NoStub
    /\ newAgentId = "none"
    /\ newAgent = NoStub
    /\ originalState = BlankState
    /\ written = <<>>
    /\ GenIdle
    /\ WsIdle
    /\ parked = IdleFrame

NextGen ==
    \/ CallStartCodeGeneration
    \/ SParse
    \/ SRateLimit
    \/ SAgent
    \/ CfgSettle
    \/ GEntry
    \/ GDirect
    \/ SJoin
    \/ RList
    \/ RFork
    \/ AIReturn
    \/ AIThrow
    \/ SandboxReady
    \/ SandboxFail
    \/ RJoin
    \/ RDetails
    \/ STemplate
    \/ OnBlueprintChunk
    \/ InitFulfilled
    \/ InitRejected
    \/ Transform
    \/ StreamClose
    \/ ClientCancel

SpecGen == InitGen /\ [][NextGen]_vars

\* The runtime keeps reading the body of a response it has returned: a queued
\* chunk is transformed and a requested close completes.
SpecGenFair == SpecGen /\ WF_vars(Transform) /\ WF_vars(StreamClose)

\* ===================================================== claims: cloneAgent
\* The six fields the clone is documented to reset.
MaskSix(s) ==
    [s EXCEPT !.sessionId = Undefined,
              !.sandboxInstanceId = Undefined,
              !.pendingUserInputs = <<>>,
              !.generationPromise = Undefined,
              !.shouldBeGenerating = FALSE,
              !.clientReportedErrors = <<>>]

\* C2: every state cloneAgent passes to setState has pendingUserInputs and
\* clientReportedErrors empty, sandboxInstanceId and generationPromise
\* undefined, shouldBeGenerating false and sessionId equal to the generated
\* agent ID, and it is written to the new actor (default jurisdiction).
C2_CloneClearsTransient ==
    \A i \in 1..Len(written) :
        LET h == written[i][1]
            st == written[i][2]
        IN  /\ h = Handle("default", newAgentId)
            /\ newAgentId \in FreshIds
            /\ st.pendingUserInputs = <<>>
            /\ st.clientReportedErrors = <<>>
            /\ st.sandboxInstanceId = Undefined
            /\ st.generationPromise = Undefined
            /\ st.shouldBeGenerating = FALSE
            /\ st.sessionId = newAgentId
            /\ astate[h] = st

\* A clone was written whose source had every transient field set.
C2_Witness ==
    /\ op = "cloneAgent"
    /\ Len(written) = 1
    /\ astate[agentInstance].pendingUserInputs # <<>>
    /\ astate[agentInstance].clientReportedErrors # <<>>
    /\ astate[agentInstance].sandboxInstanceId # Undefined
    /\ astate[agentInstance].generationPromise # Undefined
    /\ astate[agentInstance].shouldBeGenerating

\* C3 as stated: outside the six documented fields the written state equals the
\* source actor's state, currentDevState included.
C3_OnlySixFieldsDiffer ==
    \A i \in 1..Len(written) :
        MaskSix(written[i][2]) = MaskSix(astate[agentInstance])

\* C3 amended: outside the six documented fields and currentDevState the written
\* state equals the source actor's state; currentDevState is reset to 0.
C3_SixFieldsAndDevStateDiffer ==
    \A i \in 1..Len(written) :
        /\ MaskSix(written[i][2])
             = [MaskSix(astate[agentInstance]) EXCEPT !.currentDevState = 0]
        /\ written[i][2].currentDevState = 0

\* A clone was written from a source in the "eu" jurisdiction whose development
\* state was not 0 and which held a screenshot.
C3_Witness ==
    /\ op = "cloneAgent"
    /\ Len(written) = 1
    /\ agentInstance.jur = "eu"
    /\ astate[agentInstance].currentDevState > 0
    /\ astate[agentInstance].latestScreenshot # Undefined

\* =================================================== claims: getAgentStub
\* The order the claim states, whatever the code iterates over.
ClaimedOrder == <<"default", "eu">>
JurisdictionIndex(jr) == CHOOSE i \in 1..Len(ClaimedOrder) : ClaimedOrder[i] = jr
SearchCall(c) == c.name \in {"get", "isInitialized"}
AnsweredTrue(i) == calls[i].name = "isInitialized" /\ calls[i].reply = "true"
SearchRequest == op = "getAgentStub" /\ gsearch

\* C4: a jurisdiction search visits default before "eu", the handle returned is
\* the one of the first jurisdiction that answered isInitialized() = true, and no
\* call is issued after that answer: when default answers true, "eu" is never
\* queried.
C4_SearchOrder ==
    SearchRequest =>
      /\ \A i \in 1..Len(calls) :
           /\ (i = 1 /\ SearchCall(calls[i])) => calls[i].jur = "default"
           /\ (SearchCall(calls[i]) /\ calls[i].jur = "eu") =>
                 \E k \in 1..(i-1) : calls[k].name = "get" /\ calls[k].jur = "default"
           /\ \A k \in 1..(i-1) :
                 (SearchCall(calls[i]) /\ SearchCall(calls[k])) =>
                    JurisdictionIndex(calls[k].jur) <= JurisdictionIndex(calls[i].jur)
           /\ AnsweredTrue(i) =>
                 /\ i = Len(calls)
                 /\ pc \in {"stub_done", "done"}
                 /\ gstub = Handle(calls[i].jur, gid)
                 /\ (pc = "done" =>
                        outcome = "returned" /\ result = Handle(calls[i].jur, gid))
      /\ (\E i \in 1..Len(calls) : AnsweredTrue(i) /\ calls[i].jur = "default") =>
            \A k \in 1..Len(calls) : calls[k].jur # "eu"

\* Both jurisdictions hold an initialized actor and the search returned.
C4_Witness ==
    /\ SearchRequest
    /\ pc = "done"
    /\ initd[Handle("default", gid)]
    /\ initd[Handle("eu", gid)]
    /\ result = Handle("default", gid)

NoneAnsweredTrue == \A i \in 1..Len(calls) : ~AnsweredTrue(i)

\* C5 as stated: a search in which no jurisdiction answers true does not raise
\* and returns nothing.
C5_SearchReturnsNothing ==
    (SearchRequest /\ nsAvailable /\ pc = "done" /\ NoneAnsweredTrue) =>
        (outcome = "returned" /\ result = NoStub)

\* C5 amended: a search in which no jurisdiction answers true falls through to
\* the direct retrieval in the default jurisdiction: it returns that handle,
\* unchecked, or rethrows when the retrieval throws.
C5_SearchFallsThrough ==
    (SearchRequest /\ nsAvailable /\ pc = "done" /\ NoneAnsweredTrue) =>
        /\ calls # <<>>
        /\ calls[Len(calls)].name = "getDirect"
        /\ calls[Len(calls)].jur = "default"
        /\ \/ /\ calls[Len(calls)].reply = "ok"
              /\ outcome = "returned"
              /\ result = Handle("default", gid)
           \/ /\ calls[Len(calls)].reply = "throw"
              /\ outcome = "threw"
              /\ error = "StubError"

\* A search found no initialized actor anywhere and still returned a handle.
C5_Witness ==
    /\ SearchRequest
    /\ nsAvailable
    /\ pc = "done"
    /\ NoneAnsweredTrue
    /\ ~initd[Handle("default", gid)]
    /\ ~initd[Handle("eu", gid)]
    /\ outcome = "returned"
    /\ result = Handle("default", gid)

\* ===================================== claims: selectTemplate / resolveTemplate
Offered(name) == \E k \in 1..Len(templates) : templates[k] = name
ResolveEnded == rtState \in {"returned", "threw"}

\* C1: once the selector has returned (and the sandbox client was obtained, so
\* that the Promise.all fulfilled), getTemplateForQuery rejects a null (or
\* empty) name and a name that no fetched template carries, without fetching a
\* manifest; getTemplateDetails is only called with the selected name, which is
\* a fetched one; a successful return carries a selection whose name was fetched.
C1_SelectionValidated ==
    /\ \A i \in 1..Len(detailsCalls) :
          /\ Offered(detailsCalls[i])
          /\ detailsCalls[i] = selection.selectedTemplateName
    /\ pc = "r_details" => Offered(selection.selectedTemplateName)
    /\ rtState = "returned" =>
          /\ selState = "returned"
          /\ ~Falsy(selection.selectedTemplateName)
          /\ Offered(selection.selectedTemplateName)
          /\ detailsCalls = <<selection.selectedTemplateName>>
    /\ (ResolveEnded /\ selState = "returned" /\ sbState = "ok") =>
          IF Falsy(selection.selectedTemplateName)
            THEN /\ rtState = "threw"
                 /\ rtError = "No suitable template found for code generation"
                 /\ detailsCalls = <<>>
            ELSE IF ~Offered(selection.selectedTemplateName)
              THEN /\ rtState = "threw"
                   /\ rtError = "Selected template not found in available templates"
                   /\ detailsCalls = <<>>
              ELSE detailsCalls = <<selection.selectedTemplateName>>

\* The AI named a template that is not among the two fetched ones, and
\* getTemplateForQuery ended.
C1_Witness ==
    /\ ResolveEnded
    /\ Len(templates) = 2
    /\ selState = "returned"
    /\ selection.selectedTemplateName = "ghost"

\* C6: with an empty candidate list selectTemplate returns, without throwing and
\* without calling executeInference, a selection whose name is null and whose
\* reasoning is not empty.
C6_EmptyCandidates ==
    (selState # "idle" /\ Len(templates) = 0) =>
        /\ selState = "returned"
        /\ selection.selectedTemplateName = Null
        /\ selection.reasoning # ""
        /\ selError = "none"
        /\ aiCalls = 0
        /\ aiError = "none"

\* selectTemplate ran on an empty list, for an authenticated user.
C6_Witness ==
    /\ selState = "returned"
    /\ Len(templates) = 0
    /\ user # "anonymous"
    /\ query = "q1"

\* C7: when executeInference fails with an error that is neither a rate-limit
\* nor a security error, selectTemplate returns (does not throw) the fallback
\* shape: name, useCase, complexity and styleSelection null, projectName empty,
\* reasoning populated.
C7_FallbackOnOtherError ==
    aiError = "OtherError" =>
        /\ Len(templates) > 0
        /\ aiCalls = 1
        /\ selState = "returned"
        /\ selError = "none"
        /\ selection.selectedTemplateName = Null
        /\ selection.useCase = Null
        /\ selection.complexity = Null
        /\ selection.styleSelection = Null
        /\ selection.projectName = ""
        /\ selection.reasoning # ""

\* executeInference failed with another error on a list of two candidates.
C7_Witness ==
    /\ aiError = "OtherError"
    /\ Len(templates) = 2
    /\ selState = "returned"

\* C8: when executeInference raises a rate-limit or security error,
\* selectTemplate throws that error and returns no selection; getTemplateForQuery
\* fails with the same error (with the error of getSandboxService only if that
\* call has rejected as well), never checks the name and never calls
\* getTemplateDetails.
C8_RateLimitPropagates ==
    aiError \in {"RateLimitExceededError", "SecurityError"} =>
        /\ selState = "threw"
        /\ selError = aiError
        /\ selection = NoSelection
        /\ ~validated
        /\ detailsCalls = <<>>
        /\ rtState # "returned"
        /\ pc \in {"s_template", "done"} =>
              /\ rtState = "threw"
              /\ sbState # "threw" => rtError = aiError
              /\ rtError \in {aiError, "SandboxError"}
        /\ status # 200

\* A security error was raised after the sandbox client was ready, and
\* getTemplateForQuery has failed.
C8_Witness ==
    /\ aiError = "SecurityError"
    /\ sbState = "ok"
    /\ rtState = "threw"

\* C9 as stated: a selection failure converted to the fallback never makes
\* getTemplateForQuery or startCodeGeneration end in an error.
C9_FailureNeverSurfaced ==
    aiError = "OtherError" => (rtState # "threw" /\ status # 500)

\* C9 amended: a selection failure never makes selectTemplate throw; the
\* fallback it returns is rejected by getTemplateForQuery with "No suitable
\* template found" (when getSandboxService rejected, the Promise.all has
\* already failed with that error), and startCodeGeneration answers 500 with
\* that text, calls initialize never and writes nothing to the stream.
C9_FailureBecomesNoTemplateError ==
    aiError = "OtherError" =>
        /\ selState = "returned"
        /\ selection.selectedTemplateName = Null
        /\ rtState # "returned"
        /\ pc \in {"s_template", "done"} =>
              /\ rtState = "threw"
              /\ rtError = IF sbState = "threw"
                             THEN "SandboxError"
                             ELSE "No suitable template found for code generation"
        /\ status # 0 =>
              /\ status = 500
              /\ message = "Failed to get template for query: " \o rtError
        /\ initCalls = 0
        /\ wq = <<>>
        /\ out = <<>>

\* The handler has answered a request whose selection failed.
C9_Witness ==
    /\ aiError = "OtherError"
    /\ pc = "done"
    /\ status = 500

\* ================================================== claims: response stream
IsInitialLine(l) == l = JSONLine(InitialResponse(agentId))
IsChunkLine(l) == \E text \in ChunkTexts : l = JSONLine(BlueprintChunk(text))
IsErrorLine(l) == l = JSONLine(ErrorEvent("boom"))
HasErrorLine == \E i \in 1..Len(out) : IsErrorLine(out[i])

\* The events on the stream so far: the initial line first and once, then chunk
\* lines, then at most one terminal action, which is the sentinel after a
\* fulfilled initialize or the error line after a rejected one.
StreamShape ==
    /\ out # <<>> => (status = 200 /\ IsInitialLine(out[1]))
    /\ \A i \in 2..Len(out) :
          \/ IsChunkLine(out[i])
          \/ IsErrorLine(out[i]) /\ i = Len(out)
    /\ HasErrorLine => (initState = "rejected" /\ endedBy # "terminate")
    /\ endedBy = "terminate" =>
          (initState = "fulfilled" /\ ~HasErrorLine /\ out # <<>>)
    /\ endedBy = "close" =>
          (initState = "rejected" /\ out # <<>> /\ IsErrorLine(out[Len(out)]))
    /\ rstate = "closed" => endedBy \in {"terminate", "close"}

\* Nothing appears on the stream after its terminal action.
StreamFrozen ==
    /\ HasErrorLine => out' = out
    /\ rstate \in {"closed", "cancelled"} =>
          (out' = out /\ endedBy' = endedBy /\ rstate' = rstate)

\* C10: on a 200 response the stream carries the initial metadata line first and
\* once, then chunk lines, then exactly one terminal action (the sentinel when
\* initialize is fulfilled, the error line when it is rejected, never both), and
\* nothing after it.
C10_StreamProtocol == [](StreamShape) /\ [][StreamFrozen]_vars

\* The stream ended on the sentinel after the initial line and one chunk, and a
\* later chunk of the actor was refused.
C10_Witness ==
    /\ endedBy = "terminate"
    /\ Len(out) = 2
    /\ chunksSent >= 2

\* ========================================================================
\* handleWebSocketConnection (src/worker/agents/index.ts)
\* ========================================================================

\* context.pathParams.agentId
ChatIds == {Undefined, SourceId}

\* request.headers.get('Upgrade'): absent, the exact value, another spelling.
UpgradeHeaders == {Null, "websocket", "WebSocket"}

\* What the actor (reached through the router or through the stub) answers.
UpstreamStatuses == {101, 500}

\* A slip: any Upgrade header is taken for a WebSocket upgrade.
IsUpgradeAnyHeader(h) == h # Null

\* request.headers.get('Upgrade') !== 'websocket'  (negated)
IsUpgrade(h) == h = "websocket"

\* !validateWebSocketOrigin(request, env)  (negated)
OriginAccepted(valid) == valid

\* A slip: the socket is closed before the error frame is sent, as a normal close.
SyntheticCloseOutOfOrder(msg) ==
    << [do |-> "accept", arg |-> "none"],
       [do |-> "close",  arg |-> "1000"],
       [do |-> "send",   arg |-> "{type:error,error:" \o msg \o "}"] >>

\* server.accept(); server.send(JSON.stringify({type: ERROR, error: ...}));
\* server.close(1011, 'Agent instance not found');
SyntheticClose(msg) ==
    << [do |-> "accept", arg |-> "none"],
       [do |-> "send",   arg |-> "{type:error,error:" \o msg \o "}"],
       [do |-> "close",  arg |-> "1011"] >>

\* The inner catch: emulate a WebSocket response for the error e.
Synthetic(e) ==
    /\ socket' = SyntheticClose("Failed to get agent instance: " \o e)
    /\ response' = [status |-> 101, body |-> Null, webSocket |-> "client",
                    from |-> "handler"]
    /\ outcome' = "returned"
    /\ pc' = "done"

\* return new Response(text, {status}) before anything was routed.
Refuse(code, text) ==
    /\ response' = [status |-> code, body |-> text, webSocket |-> "none",
                    from |-> "handler"]
    /\ outcome' = "returned"
    /\ pc' = "done"

\* A request: handleWebSocketConnection(request, env, _, context).
CallHandleWebSocketConnection ==
    /\ op = "none"
    /\ op' = "handleWebSocketConnection"
    /\ pc' = "w_check"
    /\ chatId' \in ChatIds
    /\ upgradeHeader' \in UpgradeHeaders
    /\ originValid' \in BOOLEAN
    /\ UNCHANGED <<platformVars, calls, outcome, error, result, gFrame, cFrame,
                   sFrame, rFrame, selFrame, bgVars, streamVars, parked,
                   routeCalls, routed, socket, fwd, response>>

\* The three checks, then the call of routeAgentRequest(request, env, {cors}).
WCheck ==
    /\ pc = "w_check"
    /\ IF Falsy(chatId)
         THEN /\ Refuse(400, "Missing agent ID parameter")
              /\ routeCalls' = routeCalls
         ELSE IF ~IsUpgrade(upgradeHeader)
           THEN /\ Refuse(426, "Expected WebSocket upgrade")
                /\ routeCalls' = routeCalls
           ELSE IF ~OriginAccepted(originValid)
             THEN /\ Refuse(403, "Forbidden: Invalid origin")
                  /\ routeCalls' = routeCalls
             ELSE /\ routeCalls' = routeCalls + 1
                  /\ pc' = "w_route"
                  /\ UNCHANGED <<outcome, response>>
    /\ UNCHANGED <<platformVars, calls, op, error, result, gFrame, cFrame,
                   sFrame, rFrame, selFrame, bgVars, streamVars, parked,
                   chatId, upgradeHeader, originValid, routed, socket, fwd>>

\* const response = await routeAgentRequest(...): a response, null, or a throw.
\* if (response) return response; else getAgentStub(env, chatId, true, logger).
WRoute ==
    /\ pc = "w_route"
    /\ \/ \E st \in UpstreamStatuses :
            /\ routed' = "response"
            /\ response' = [status |-> st, body |-> Null,
                            webSocket |-> IF st = 101 THEN "agent" ELSE "none",
                            from |-> "router"]
            /\ outcome' = "returned"
            /\ pc' = "done"
            /\ UNCHANGED <<socket, gFrame>>
       \/ /\ routed' = "null"
          /\ EnterGetAgentStub(chatId, TRUE, "w_forward")
          /\ UNCHANGED <<socket, response, outcome>>
       \/ /\ routed' = "threw"
          /\ Synthetic("RouteError")
          /\ UNCHANGED gFrame
    /\ UNCHANGED <<platformVars, calls, op, error, result, cFrame,
                   sFrame, rFrame, selFrame, bgVars, streamVars, parked,
                   chatId, upgradeHeader, originValid, routeCalls, fwd>>

\* A slip: the room header is left out of the forwarded request.
modifiedRequestNoRoom(id) == [namespace |-> "CodeGenObject", room |-> Undefined]

\* new Request(request.url, {headers: {...request.headers,
\*     'namespace': 'CodeGenObject', 'room': chatId}, ...})
modifiedRequest(id) == [namespace |-> "CodeGenObject", room |-> id]

\* getAgentStub returned or threw. A throw goes to the inner catch. Otherwise
\* the modifiedRequest is built and `return agentInstance.fetch(modifiedRequest)`
\* hands the promise of fetch to the caller without awaiting it: a response
\* of the actor is the handler's response, a throw while the call is made is
\* caught by the inner catch, and a rejection of the promise passes both catch
\* blocks and rejects the handler's own promise.
WForward ==
    /\ pc = "w_forward"
    /\ IF gerr # "none"
         THEN /\ Synthetic(gerr)
              /\ UNCHANGED <<calls, fwd, error>>
         ELSE /\ fwd' = modifiedRequest(chatId)
              /\ \/ \E st \in UpstreamStatuses :
                      /\ calls' = Append(calls, Call("fetch", gstub, "response"))
                      /\ response' = [status |-> st, body |-> Null,
                                      webSocket |-> IF st = 101 THEN "agent" ELSE "none",
                                      from |-> "agent"]
                      /\ outcome' = "returned"
                      /\ pc' = "done"
                      /\ UNCHANGED <<socket, error>>
                 \/ /\ calls' = Append(calls, Call("fetch", gstub, "throw"))
                    /\ Synthetic("FetchError")
                    /\ error' = error
                 \/ /\ calls' = Append(calls, Call("fetch", gstub, "reject"))
                    /\ Throw("FetchError")
                    /\ UNCHANGED <<socket, response>>
    /\ UNCHANGED <<platformVars, op, result, gFrame, cFrame,
                   sFrame, rFrame, selFrame, bgVars, streamVars, parked,
                   chatId, upgradeHeader, originValid, routeCalls, routed>>

\* The platform before an upgrade request: the chat's actor may be initialized
\* in either jurisdiction, or in none.
InitWs ==
    /\ nsAvailable \in BOOLEAN
    /\ \E d, e \in BOOLEAN :
         initd = [h \in Handles |->
                    IF h.id = SourceId
                      THEN (IF h.jur = "default" THEN d ELSE e)
                      ELSE FALSE]
    /\ astate = [h \in Handles |-> BlankState]
    /\ calls = <<>>
    /\ op = "none"
    /\ pc = "idle"
    /\ outcome = "running"
    /\ error = "none"
    /\ result = NoStub
    /\ gid = "none"
    /\ gsearch = FALSE
    /\ gret = "none"
    /\ j = 1
    /\ cand = NoStub
    /\ gstub = NoStub
    /\ gerr = "none"
    /\ agentInstance = NoStub
    /\ newAgentId = "none"
    /\ newAgent = NoStub
    /\ originalState = BlankState
    /\ written = <<>>
    /\ GenIdle
    /\ WsIdle
    /\ parked = IdleFrame

NextWs ==
    \/ CallHandleWebSocketConnection
    \/ WCheck
    \/ WRoute
    \/ GEntry
    \/ GLoopGet
    \/ GLoopIsInitialized
    \/ GDirect
    \/ WForward

SpecWs == InitWs /\ [][NextWs]_vars

\* ========================================================================
\* getAgentStub called on its own or by startCodeGeneration
\* ========================================================================

\* The platform before the request: the source ID has an initialized actor in
\* eu, and one in the default jurisdiction or none there.
InitLocate ==
    /\ InitWs
    /\ initd[Handle("eu", SourceId)]

NextLocate ==
    \/ CallGetAgentStub
    \/ GLoopGet
    \/ GLoopIsInitialized
    \/ StubDone
    \/ NextGen

SpecLocate == InitLocate /\ [][NextLocate]_vars

\* ========================================================================
\* two concurrent callers of getAgentStub / getAgentState / cloneAgent
\* ========================================================================

\* The state the source actors own when the callers arrive: every transient
\* field is set.
BusyState ==
    [ sessionId            |-> SourceId,
      sandboxInstanceId    |-> "sb1",
      pendingUserInputs    |-> <<"u1">>,
      currentDevState      |-> 1,
      generationPromise    |-> "p1",
      shouldBeGenerating   |-> TRUE,
      clientReportedErrors |-> <<"e1">>,
      latestScreenshot     |-> "img",
      rest                 |-> "default-actor" ]

\* Two callers, neither has called anything; the source ID may have an
\* initialized actor in either jurisdiction.
InitConc ==
    /\ InitAgents
    /\ astate[Handle("default", SourceId)] = BusyState

\* Each step is a step of one caller, or the switch to the other caller: the
\* callers' steps interleave at every await.
NextConc ==
    \/ NextAgents
    \/ Switch

SpecConc == InitConc /\ [][NextConc]_vars

InitializeSettled == initState \in {"fulfilled", "rejected"}

\* C11: once initialize has settled, the response stream does not stay open
\* forever: it ends (closed by the sentinel or by the close after the error
\* event, or cancelled by the client).
C11_StreamEventuallyCloses == InitializeSettled ~> (rstate # "open")

\* initialize was rejected and the stream was closed after the error event.
C11_Witness ==
    /\ initState = "rejected"
    /\ rstate = "closed"
    /\ endedBy = "close"
    /\ HasErrorLine

\* C12: the step that returns the 200 response leaves initialize pending: the
\* response never waits for initialize to settle.
C12_ReturnsBeforeInitializeSettles ==
    [][(status # 200 /\ status' = 200) =>
          (initState = "idle" /\ initState' = "pending" /\ pc' = "done")]_vars

\* The response has been returned, nothing has been read from it yet and
\* initialize is still pending.
C12_Witness ==
    /\ status = 200
    /\ pc = "done"
    /\ initState = "pending"
    /\ out = <<>>

\* No jurisdiction holds an initialized actor for the source ID.
NoInitializedSource == \A h \in Handles : h.id = SourceId => ~initd[h]

\* The last platform call of the operation threw (the direct retrieval, or the
\* isInitialized question cloneAgent asks the handle it was given).
LastCallThrew ==
    /\ calls # <<>>
    /\ calls[Len(calls)].reply = "throw"

\* C13: when no jurisdiction holds an initialized actor for the source ID,
\* cloneAgent generates no new ID, obtains no new handle and calls setState on
\* no actor, and it ends by throwing: AgentNotFound whenever the namespace is
\* configured and its last platform call answered, and otherwise the error of
\* the namespace check or of that call.
C13_CloneOfMissingSourceFails ==
    (op = "cloneAgent" /\ NoInitializedSource) =>
       /\ newAgentId = "none"
       /\ newAgent = NoStub
       /\ written = <<>>
       /\ \A i \in 1..Len(calls) :
            calls[i].id = SourceId /\ calls[i].name # "setState"
       /\ pc = "done" =>
            /\ outcome = "threw"
            /\ (nsAvailable /\ ~LastCallThrew) => error = "AgentNotFound"
            /\ ~nsAvailable => error = "NamespaceUnavailable"
            /\ (nsAvailable /\ LastCallThrew) => error \in {"StubError", "RpcError"}

\* The search asked both jurisdictions, both answered false, the direct
\* retrieval returned the default handle, it answered false too, and cloneAgent
\* threw AgentNotFound.
C13_Witness ==
    /\ op = "cloneAgent"
    /\ NoInitializedSource
    /\ pc = "done"
    /\ error = "AgentNotFound"
    /\ Len(calls) = 6
    /\ calls[2].reply = "false"
    /\ calls[4].reply = "false"
    /\ calls[5].name = "getDirect"
    /\ calls[6] = Call("isInitialized", Handle("default", SourceId), "false")

UpgradeDone == op = "handleWebSocketConnection" /\ pc = "done"

\* routeAgentRequest threw, or getAgentStub threw in the fallback.
RoutingOrResolutionThrew ==
    \/ routed = "threw"
    \/ routed = "null" /\ gerr # "none"

\* accept, then one send of a JSON error frame, then close with code 1011.
CloseHandshake ==
    /\ Len(socket) = 3
    /\ socket[1].do = "accept"
    /\ socket[2].do = "send"
    /\ \E e \in {"RouteError", "NamespaceUnavailable", "StubError", "FetchError"} :
         socket[2].arg = "{type:error,error:Failed to get agent instance: " \o e \o "}"
    /\ socket[3] = [do |-> "close", arg |-> "1011"]

\* C14: when routing or actor resolution throws after the header and origin
\* checks passed, the handler accepts the server socket, sends exactly one JSON
\* error frame, closes with code 1011, in that order, and returns 101 with the
\* client socket.
C14_SyntheticCloseOnThrow ==
    (UpgradeDone /\ RoutingOrResolutionThrew) =>
       /\ CloseHandshake
       /\ outcome = "returned"
       /\ response.status = 101
       /\ response.webSocket = "client"

\* The router answered null and getAgentStub threw out of its direct
\* retrieval, after both jurisdictions had been asked.
C14_Witness ==
    /\ UpgradeDone
    /\ routed = "null"
    /\ gerr = "StubError"
    /\ Len(calls) > 1
    /\ response.status = 101
    /\ Len(socket) = 3

\* The forwarded agentInstance.fetch failed: it threw or its promise rejected.
ForwardedFetchFailed ==
    /\ calls # <<>>
    /\ calls[Len(calls)].name = "fetch"
    /\ calls[Len(calls)].reply \in {"throw", "reject"}

\* C15: for every upgrade request that passed the checks, whatever fails
\* afterwards (routing throws, the actor lookup throws, the forwarded fetch
\* fails), the handler returns the 101 close handshake and never throws.
C15_AlwaysCloseHandshake ==
    (UpgradeDone /\ routeCalls > 0
       /\ (RoutingOrResolutionThrew \/ ForwardedFetchFailed)) =>
       /\ outcome = "returned"
       /\ response.status = 101
       /\ response.webSocket = "client"
       /\ CloseHandshake

\* C16: the handler routes, looks an actor up or accepts a socket only for a
\* request whose Upgrade header is exactly "websocket" and whose origin is
\* valid; a request (with an agent ID) without that header gets 426, one with
\* an invalid origin gets 403, and both without any routing call, actor lookup
\* or socket operation.
C16_ChecksBeforeRouting ==
    /\ (UpgradeDone /\ ~Falsy(chatId) /\ upgradeHeader # "websocket") =>
          response.status = 426
    /\ (UpgradeDone /\ ~Falsy(chatId) /\ upgradeHeader = "websocket" /\ ~originValid) =>
          response.status = 403
    /\ response.status \in {426, 403} =>
          /\ routeCalls = 0
          /\ routed = "none"
          /\ calls = <<>>
          /\ socket = <<>>
          /\ fwd = NoRequest
          /\ response.webSocket = "none"
    /\ (routeCalls > 0 \/ calls # <<>> \/ socket # <<>> \/ fwd # NoRequest) =>
          (upgradeHeader = "websocket" /\ originValid)

\* A request with the Upgrade header and an invalid origin was answered 403.
C16_Witness ==
    /\ UpgradeDone
    /\ upgradeHeader = "websocket"
    /\ ~originValid
    /\ response.status = 403
    /\ response.body = "Forbidden: Invalid origin"

GenerationDone == op = "startCodeGeneration" /\ pc = "done"

\* C17: a RateLimitExceeded or SecurityError raised anywhere in
\* startGeneration, the AI collaborator during template selection included, is
\* answered with 429 or another 4xx status, never with 500.
C17_RateLimitSurfacesAs4xx ==
    (GenerationDone /\ aiError \in {"RateLimitExceededError", "SecurityError"}) =>
       (status >= 400 /\ status <= 499)

\* C18: the rate-limit check runs exactly once for an authenticated user whose
\* request reached it and never for an anonymous request; when it fails the
\* answer is 429 and no agent ID is generated, no actor located, no template
\* resolved and initialize never called.
C18_RateLimitGate ==
    /\ rateChecks <= 1
    /\ user = "anonymous" => rateChecks = 0 /\ status # 429
    /\ (user # "anonymous" /\ agentId # "none") => rateChecks = 1
    /\ status = 429 =>
          /\ rateChecks = 1
          /\ pc = "done"
          /\ agentId = "none"
          /\ gid = "none"
          /\ calls = <<>>
          /\ cfgState = "idle"
          /\ rtState = "idle"
          /\ templates = <<>>
          /\ aiCalls = 0
          /\ detailsCalls = <<>>
          /\ initCalls = 0
          /\ initState = "idle"
          /\ wq = <<>>

\* An authenticated request was refused by the rate limit.
C18_Witness ==
    /\ GenerationDone
    /\ user = "u1"
    /\ rateChecks = 1
    /\ status = 429

\* C19: a parsed body whose query is missing or empty is answered 400 with
\* 'Missing "query" field in request body', before any rate-limit check, actor
\* lookup, collaborator call or stream write.
C19_MissingQueryRejected ==
    (op = "startCodeGeneration" /\ pc # "s_parse" /\ bodyOk
       /\ query \in {Undefined, ""}) =>
       /\ pc = "done"
       /\ status = 400
       /\ message = "Missing \"query\" field in request body"
       /\ rateChecks = 0
       /\ agentId = "none"
       /\ gid = "none"
       /\ calls = <<>>
       /\ cfgState = "idle"
       /\ rtState = "idle"
       /\ sbState = "idle"
       /\ aiCalls = 0
       /\ detailsCalls = <<>>
       /\ initCalls = 0
       /\ wstate = "none"
       /\ wq = <<>>
       /\ out = <<>>

\* A body with an empty query string was refused.
C19_Witness ==
    /\ GenerationDone
    /\ bodyOk
    /\ query = ""
    /\ status = 400

\* C20: a client that cancels the stream after initialize was called retracts
\* nothing: the cancel step sends the actor no message and leaves initialize as
\* it is, and a pending initialize can still complete and can still fail.
C20_CancelDoesNotRetract ==
    /\ [][(rstate = "open" /\ rstate' = "cancelled") =>
             (/\ initCalls = 1
              /\ initState' = initState
              /\ initCalls' = initCalls
              /\ chunksSent' = chunksSent
              /\ calls' = calls)]_vars
    /\ []((rstate = "cancelled" /\ initState = "pending") =>
             (ENABLED InitFulfilled /\ ENABLED InitRejected))

\* The client has gone and initialize is still pending.
C20_Witness ==
    /\ rstate = "cancelled"
    /\ endedBy = "cancel"
    /\ initState = "pending"
    /\ initCalls = 1

\* selectTemplate or getSandboxService has rejected.
EitherFailed == selState = "threw" \/ sbState = "threw"

\* C21: selectTemplate and getSandboxService are started in the same step,
\* before either result is awaited; while both are pending either one can
\* complete next; the name is validated and the manifest fetched only after
\* both have completed successfully; if either rejects, getTemplateForQuery
\* fails and no manifest is fetched.
C21_SelectionAndSandboxConcurrent ==
    /\ [][(sbState = "idle" /\ sbState' # "idle") =>
             (/\ selState = "idle"
              /\ selState' \in {"pending", "returned"}
              /\ sbState' = "pending"
              /\ pc' = "r_join"
              /\ ~validated')]_vars
    /\ []((pc = "r_join" /\ selState = "pending" /\ sbState = "pending") =>
             (/\ ENABLED AIReturn
              /\ ENABLED AIThrow
              /\ ENABLED SandboxReady
              /\ ENABLED SandboxFail
              /\ ~ENABLED RJoin))
    /\ []((validated \/ detailsCalls # <<>> \/ rtState = "returned") =>
             (selState = "returned" /\ sbState = "ok"))
    /\ [](EitherFailed =>
             (/\ ~validated
              /\ detailsCalls = <<>>
              /\ rtState # "returned"
              /\ pc \in {"s_template", "done"} => (rtState = "threw" /\ status # 200)))

\* The selector had named a fetched template, the sandbox acquisition
\* rejected, and getTemplateForQuery failed with its error.
C21_Witness ==
    /\ selState = "returned"
    /\ Offered(selection.selectedTemplateName)
    /\ sbState = "threw"
    /\ rtState = "threw"
    /\ rtError = "SandboxError"
    /\ detailsCalls = <<>>

\* getAgentStub is running for startCodeGeneration.
LocatingActor == op = "startCodeGeneration" /\ pc \in {"g_entry", "g_direct"}

\* C22 as stated: no two of the rate-limit check, the agent-ID generation, the
\* configuration fetch, the actor location and the template resolution are in
\* flight together, and the agent ID exists before the rate-limit check.
C22_AllSequentialIdFirst ==
    /\ ~(LocatingActor /\ cfgState = "pending")
    /\ rateChecks > 0 => agentId # "none"

\* C22 amended: the rate-limit check completes before the agent ID is
\* generated; the configuration fetch and the actor location are started by
\* the same step and are in flight together, with nothing else; the template
\* resolution starts only when both have completed.
C22_SequentialExceptConfigAndStub ==
    /\ [](pc = "s_rate" =>
            (agentId = "none" /\ cfgState = "idle" /\ gid = "none" /\ rtState = "idle"))
    /\ []((agentId # "none" /\ user # "anonymous") => rateChecks = 1)
    /\ [][(cfgState = "idle" /\ cfgState' # "idle") =>
             (agentId = "none" /\ agentId' # "none" /\ pc' = "g_entry" /\ gid' = agentId')]_vars
    /\ [](LocatingActor =>
            (cfgState \in {"pending", "ok", "threw"} /\ rtState = "idle" /\ status = 0))
    /\ [](rtState = "running" =>
            (cfgState = "ok" /\ gerr = "none" /\ gstub = Handle("default", agentId)
               /\ ~LocatingActor))

\* The configuration fetch of an authenticated user is pending while
\* getAgentStub is about to make its retrieval.
C22_Witness ==
    /\ LocatingActor
    /\ pc = "g_direct"
    /\ user = "u1"
    /\ cfgState = "pending"
    /\ rateChecks = 1

\* C23: when the namespace is not configured, getAgentStub throws the
\* namespace error for either value of the search flag and issues no platform
\* call at all.
C23_NamespaceUnavailable ==
    ~nsAvailable =>
       /\ calls = <<>>
       /\ gstub = NoStub
       /\ cand = NoStub
       /\ pc \notin {"g_get", "g_isInit", "g_direct"}
       /\ (gid # "none" /\ pc # "g_entry") => gerr = "NamespaceUnavailable"
       /\ (op = "getAgentStub" /\ pc = "done") =>
             /\ outcome = "threw"
             /\ error = "NamespaceUnavailable"
             /\ result = NoStub

\* getAgentStub was called with the search on, the source actor is initialized
\* in both jurisdictions, and the call threw the namespace error.
C23_Witness ==
    /\ ~nsAvailable
    /\ op = "getAgentStub"
    /\ gsearch
    /\ \A h \in Handles : h.id = SourceId => initd[h]
    /\ pc = "done"
    /\ error = "NamespaceUnavailable"

\* listTemplates() answered nothing, or without success.
ListFailed ==
    \/ templatesResponse.got = "missing"
    \/ templatesResponse.got = "answer" /\ ~templatesResponse.success

\* getTemplateDetails(name) answered without success or without details.
DetailsFailed ==
    /\ templateDetailsResponse.got = "answer"
    /\ ~(templateDetailsResponse.success /\ templateDetailsResponse.details)

\* The error text of a collaborator answer as the message carries it.
Embedded(resp) == IF resp.error = "e1" THEN "e1" ELSE "Unknown error"

\* C24: a listTemplates answer that is missing or reports no success fails
\* getTemplateForQuery with an error embedding the upstream text, before a
\* session ID is generated and before selectTemplate or getSandboxService is
\* started; a getTemplateDetails answer without success or without details
\* fails it with an error embedding the upstream text, after the name was
\* validated; startCodeGeneration answers 500 with that error in its message.
C24_CollaboratorFailuresExplicit ==
    /\ ListFailed =>
          /\ rtState = "threw"
          /\ rtError = "Failed to fetch templates from sandbox service: "
                         \o Embedded(templatesResponse)
          /\ sandboxSessionId = "none"
          /\ selState = "idle"
          /\ sbState = "idle"
          /\ aiCalls = 0
          /\ ~validated
          /\ detailsCalls = <<>>
    /\ DetailsFailed =>
          /\ rtState = "threw"
          /\ rtError = "Failed to fetch template details: "
                         \o Embedded(templateDetailsResponse)
          /\ validated
          /\ selState = "returned"
          /\ sbState = "ok"
          /\ Offered(selection.selectedTemplateName)
          /\ detailsCalls = <<selection.selectedTemplateName>>
    /\ ((ListFailed \/ DetailsFailed) /\ status # 0) =>
          /\ status = 500
          /\ message = "Failed to get template for query: " \o rtError
          /\ initCalls = 0

\* getTemplateDetails reported the failure "e1" for a validated name, and the
\* handler answered 500 with that text.
C24_Witness ==
    /\ templateDetailsResponse.got = "answer"
    /\ ~templateDetailsResponse.success
    /\ templateDetailsResponse.error = "e1"
    /\ rtError = "Failed to fetch template details: e1"
    /\ status = 500
    /\ message = "Failed to get template for query: Failed to fetch template details: e1"

\* The i-th call was made by the search loop.
LoopCall(i) ==
    \/ calls[i].name = "get"
    \/ calls[i].name = "isInitialized" /\ i > 1 /\ calls[i - 1].name = "get"

\* C25: in a jurisdiction search a throwing lookup or a throwing
\* isInitialized question does not end the search: after one in the default
\* jurisdiction the eu jurisdiction is asked next, after one in eu the direct
\* retrieval follows, no such throw becomes the error of getAgentStub, and an
\* eu actor that answers true is returned whatever happened in the default
\* jurisdiction.
C25_SearchFailuresTolerated ==
    /\ \A i \in 1..Len(calls) :
          (LoopCall(i) /\ calls[i].reply = "throw") =>
             /\ i = Len(calls) =>
                   /\ gerr = "none"
                   /\ pc = IF calls[i].jur = "default" THEN "g_get" ELSE "g_direct"
             /\ i < Len(calls) =>
                   calls[i + 1] \in
                      (IF calls[i].jur = "default"
                         THEN {Call("get", Handle("eu", calls[i].id), r) : r \in {"ok", "throw"}}
                         ELSE {Call("getDirect", Handle("default", calls[i].id), r) :
                                 r \in {"ok", "throw"}})
    /\ \A i \in 1..Len(calls) :
          (calls[i] = Call("isInitialized", Handle("eu", SourceId), "true") /\ LoopCall(i)) =>
             /\ gstub = Handle("eu", SourceId) \/ gid # SourceId
             /\ \A k \in 1..Len(calls) : calls[k].name # "getDirect" \/ calls[k].id # SourceId
             /\ (op = "getAgentStub" /\ pc = "done") =>
                   (outcome = "returned" /\ result = Handle("eu", SourceId))

\* The default-jurisdiction lookup threw, and the initialized eu actor of the
\* source was returned.
C25_Witness ==
    /\ op = "getAgentStub"
    /\ pc = "done"
    /\ outcome = "returned"
    /\ result = Handle("eu", SourceId)
    /\ calls = << Call("get", Handle("default", SourceId), "throw"),
                  Call("get", Handle("eu", SourceId), "ok"),
                  Call("isInitialized", Handle("eu", SourceId), "true") >>

\* The last call is the forwarded fetch, made on handle h.
LastCallIsFetchOn(h) ==
    /\ calls # <<>>
    /\ calls[Len(calls)].name = "fetch"
    /\ Handle(calls[Len(calls)].jur, calls[Len(calls)].id) = h

\* C26: when routeAgentRequest answers nothing, the handler calls getAgentStub
\* for the path's agent ID with the jurisdiction search on and forwards to the
\* stub it got one request carrying the namespace header and a room header
\* equal to that ID; when routeAgentRequest answers a response, that response
\* is what the handler returns and no lookup and no forward is made.
C26_FallbackForwardsWithHeaders ==
    /\ routed = "response" =>
          /\ response.from = "router"
          /\ response.status \in {101, 500}
          /\ response.webSocket = (IF response.status = 101 THEN "agent" ELSE "none")
          /\ outcome = "returned"
          /\ pc = "done"
          /\ gid = "none"
          /\ calls = <<>>
          /\ fwd = NoRequest
          /\ socket = <<>>
    /\ (gid # "none" \/ calls # <<>> \/ fwd # NoRequest) =>
          (routed = "null" /\ gid = chatId /\ gsearch)
    /\ fwd # NoRequest =>
          /\ fwd = [namespace |-> "CodeGenObject", room |-> chatId]
          /\ chatId = SourceId
          /\ gerr = "none"
          /\ LastCallIsFetchOn(gstub)
          /\ \A i \in 1..(Len(calls) - 1) : calls[i].name # "fetch"
    /\ (routed = "null" /\ pc = "done" /\ gerr = "none") => fwd # NoRequest
    /\ response.from = "agent" => (fwd # NoRequest /\ outcome = "returned")

\* The router declined, the search found the actor initialized in eu only, and
\* the request was forwarded to that actor with both headers.
C26_Witness ==
    /\ routed = "null"
    /\ ~initd[Handle("default", SourceId)]
    /\ initd[Handle("eu", SourceId)]
    /\ gstub = Handle("eu", SourceId)
    /\ fwd = [namespace |-> "CodeGenObject", room |-> SourceId]
    /\ LastCallIsFetchOn(Handle("eu", SourceId))
    /\ response.from = "agent"
    /\ response.status = 101

\* C27: getAgentStub with the search off makes one retrieval, in the default
\* jurisdiction, never asks isInitialized, and returns that handle whether or
\* not the actor is initialized; startCodeGeneration obtains the actor of its
\* generated ID in this way and in no other.
C27_DirectRetrievalOnly ==
    /\ (gid # "none" /\ ~gsearch) =>
          /\ pc \notin {"g_get", "g_isInit"}
          /\ cand = NoStub
          /\ \A i \in 1..Len(calls) :
                /\ calls[i].name \in {"getDirect", "initialize"}
                /\ calls[i].jur = "default"
                /\ calls[i].id = gid
          /\ \A i, k \in 1..Len(calls) :
                (calls[i].name = "getDirect" /\ calls[k].name = "getDirect") => i = k
          /\ gstub # NoStub => gstub = Handle("default", gid)
          /\ (op = "getAgentStub" /\ pc = "done" /\ outcome = "returned") =>
                result = Handle("default", gid)
    /\ op = "startCodeGeneration" =>
          /\ ~gsearch
          /\ gid \in {"none", agentId}
          /\ initCalls > 0 =>
                /\ gstub = Handle("default", agentId)
                /\ calls = << Call("getDirect", gstub, "ok"),
                              Call("initialize", gstub, "pending") >>

\* With the search off the uninitialized default-jurisdiction handle of the
\* source was returned, although eu holds an initialized actor.
C27_Witness ==
    /\ op = "getAgentStub"
    /\ ~gsearch
    /\ ~initd[Handle("default", SourceId)]
    /\ initd[Handle("eu", SourceId)]
    /\ pc = "done"
    /\ result = Handle("default", SourceId)
    /\ calls = << Call("getDirect", Handle("default", SourceId), "ok") >>

\* The RPCs that only read.
ReadOnlyCalls == {"get", "getDirect", "isInitialized", "getFullState"}

\* A caller's log holds reads, and at most one setState, on a generated ID.
OnlyOneWrite(log, caller) ==
    /\ \A i \in 1..Len(log) :
          \/ log[i].name \in ReadOnlyCalls
          \/ /\ log[i].name = "setState"
             /\ log[i].id \in FreshIds
             /\ log[i].jur = "default"
             /\ caller = "cloneAgent"
    /\ \A i, k \in 1..Len(log) :
          (log[i].name = "setState" /\ log[k].name = "setState") => i = k

\* C28: with two callers of getAgentStub, getAgentState and cloneAgent whose
\* steps interleave at every await, the actors' states change only in the
\* step of a cloneAgent that calls setState, and only at the actor of that
\* caller's generated ID; the initialization flags never change; the source
\* actors' states stay what they were; each caller's log holds reads and at
\* most one setState.
C28_OnlyTheCloneIsWritten ==
    /\ [][astate' # astate =>
            (/\ op = "cloneAgent"
             /\ pc = "c_set"
             /\ newAgentId \in FreshIds
             /\ newAgent = Handle("default", newAgentId)
             /\ newAgentId # parked.newAgentId
             /\ written = <<>>
             /\ Len(written') = 1
             /\ \A h \in Handles : h # newAgent => astate'[h] = astate[h])]_vars
    /\ [][initd' = initd]_vars
    /\ [](/\ astate[Handle("default", SourceId)] = BusyState
          /\ astate[Handle("eu", SourceId)] = [BusyState EXCEPT !.rest = "eu-actor"])
    /\ [](OnlyOneWrite(calls, op) /\ OnlyOneWrite(parked.calls, parked.op))

\* Two cloneAgent calls overlap: the caller that generated its ID second has
\* returned its clone while the first is still about to call setState, and
\* the source actor's state is what it was.
C28_Witness ==
    /\ op = "cloneAgent"
    /\ pc = "c_set"
    /\ newAgentId = "n1"
    /\ parked.op = "cloneAgent"
    /\ parked.outcome = "returned"
    /\ parked.newAgentId = "n2"
    /\ astate[Handle("default", "n2")].sessionId = "n2"
    /\ astate[Handle("default", "n1")] = BlankState
    /\ astate[Handle("default", SourceId)] = BusyState

ChunkLine(text) == "{\"chunk\":\"" \o text \o "\"}\n"

\* What transform does with a progress chunk at the head of the queue: it
\* emits the chunk's line and leaves the stream open.
CallbackChunkEmitted ==
    (wq # <<>> /\ Head(wq).t = "object" /\ Head(wq).kind = "chunk"
       /\ rstate = "open" /\ endedBy = "none"
       /\ (out' # out \/ endedBy' = "terminate")) =>
          /\ out' = Append(out, ChunkLine(Head(wq).text))
          /\ rstate' = "open"
          /\ endedBy' = "none"
          /\ wq' = Tail(wq)

\* The stream is never terminated while a progress chunk is at the head of
\* the queue, and only the sentinel written by the fulfilled task terminates.
OnlySentinelTerminates ==
    /\ (endedBy' = "terminate" /\ endedBy # "terminate") =>
          /\ wq # <<>>
          /\ Head(wq) = StringChunk("terminate")
          /\ initState = "fulfilled"
          /\ out' = out
    /\ endedBy = "terminate" => initState = "fulfilled"

\* No line of the body is the sentinel.
SentinelNeverEmitted ==
    \A i \in 1..Len(out) :
        /\ out[i] # JSONLine(StringChunk("terminate"))
        /\ out[i] # "terminate"
        /\ out[i] # "terminate\n"

\* C30: a progress chunk delivered through the callback is emitted as a
\* {chunk: ...} line and leaves the stream open, also when its text is
\* "terminate"; the stream is terminated only by the sentinel the fulfilled
\* background task wrote, and the sentinel is never a line of the body.
C30_OnlyTheSentinelTerminates ==
    /\ [][CallbackChunkEmitted /\ OnlySentinelTerminates]_vars
    /\ [](SentinelNeverEmitted)
    /\ [](endedBy = "terminate" => initState = "fulfilled")

\* A progress chunk with the text "terminate" was emitted as a line, and the
\* stream was terminated later by the sentinel.
C30_Witness ==
    /\ \E i \in 1..Len(out) : out[i] = ChunkLine("terminate")
    /\ endedBy = "terminate"
    /\ initState = "fulfilled"

\* ========================================================================
\* connectToExistingAgent (src/worker/agents/index.ts)
\* ========================================================================

\* `${url.protocol === 'https:' ? 'wss:' : 'ws:'}//${url.host}/api/agent/${agentId}/ws`
WebsocketUrl(protocol, id) ==
    (IF protocol = "https:" THEN "wss:" ELSE "ws:") \o "//host/api/agent/" \o id \o "/ws"

\* new URL(request.url).protocol
UrlProtocols == {"https:", "http:"}

\* createSuccessResponse({websocketUrl, agentId})
ConnectionData(url, id) == "{websocketUrl:" \o url \o ",agentId:" \o id \o "}"

\* Another request's initialize completes on an actor of the ID: from then on
\* the actor answers isInitialized() with true.
ActorInitialized ==
    /\ \E h \in Handles :
         /\ h.id = SourceId
         /\ ~initd[h]
         /\ initd' = [initd EXCEPT ![h] = TRUE]
    /\ UNCHANGED <<nsAvailable, astate, calls, reqVars, gFrame, cFrame, genVars>>

\* A request: connectToExistingAgent(request, env, _, context).
CallConnectToExistingAgent ==
    /\ op = "none"
    /\ op' = "connectToExistingAgent"
    /\ pc' = "k_check"
    /\ chatId' \in ChatIds
    /\ UNCHANGED <<platformVars, calls, outcome, error, result, gFrame, cFrame,
                   sFrame, rFrame, selFrame, bgVars, streamVars, parked,
                   upgradeHeader, originValid, routeCalls, routed, socket, fwd,
                   response>>

\* if (!agentId) return 400; else getAgentStub(env, agentId, true, logger).
KCheck ==
    /\ pc = "k_check"
    /\ IF Falsy(chatId)
         THEN /\ Refuse(400, "Missing agent ID parameter")
              /\ UNCHANGED gFrame
         ELSE /\ EnterGetAgentStub(chatId, TRUE, "k_verify")
              /\ UNCHANGED <<outcome, response>>
    /\ UNCHANGED <<platformVars, calls, op, error, result, cFrame,
                   sFrame, rFrame, selFrame, bgVars, streamVars, parked,
                   chatId, upgradeHeader, originValid, routeCalls, routed,
                   socket, fwd>>

\* A slip: the stub getAgentStub returned is not asked isInitialized() again.
KVerifyTrustsStub ==
    /\ pc = "k_verify"
    /\ IF gerr # "none"
         THEN /\ Refuse(404, "Agent instance not found or unavailable: " \o gerr)
         ELSE IF gstub = NoStub
           THEN /\ Refuse(404, "Agent instance not found or not initialized")
           ELSE \E protocol \in UrlProtocols :
                  Refuse(200, ConnectionData(WebsocketUrl(protocol, chatId), chatId))
    /\ UNCHANGED <<platformVars, calls, op, error, result, gFrame, cFrame,
                   sFrame, rFrame, selFrame, bgVars, streamVars, parked,
                   chatId, upgradeHeader, originValid, routeCalls, routed,
                   socket, fwd>>

\* getAgentStub returned or threw. A throw goes to the inner catch: 404.
\* if (!agentInstance || !(await agentInstance.isInitialized())) return 404;
\* a throw of isInitialized() goes to the inner catch as well; otherwise
\* return createSuccessResponse({websocketUrl, agentId}).
KVerify ==
    /\ pc = "k_verify"
    /\ IF gerr # "none"
         THEN /\ Refuse(404, "Agent instance not found or unavailable: " \o gerr)
              /\ calls' = calls
         ELSE IF gstub = NoStub
           THEN /\ Refuse(404, "Agent instance not found or not initialized")
                /\ calls' = calls
           ELSE \E throws \in BOOLEAN :
                  IF throws
                    THEN /\ calls' = Append(calls, Call("isInitialized", gstub, "throw"))
                         /\ Refuse(404, "Agent instance not found or unavailable: "
                                          \o "InitCheckError")
                    ELSE IF initd[gstub]
                      THEN /\ calls' = Append(calls, Call("isInitialized", gstub, "true"))
                           /\ \E protocol \in UrlProtocols :
                                Refuse(200, ConnectionData(
                                              WebsocketUrl(protocol, chatId), chatId))
                      ELSE /\ calls' = Append(calls, Call("isInitialized", gstub, "false"))
                           /\ Refuse(404, "Agent instance not found or not initialized")
    /\ UNCHANGED <<platformVars, op, error, result, gFrame, cFrame,
                   sFrame, rFrame, selFrame, bgVars, streamVars, parked,
                   chatId, upgradeHeader, originValid, routeCalls, routed,
                   socket, fwd>>

\* The platform before a connect request: the ID's actor may be initialized in
\* either jurisdiction, or in none.
InitConnect == InitWs

NextConnect ==
    \/ CallConnectToExistingAgent
    \/ KCheck
    \/ GEntry
    \/ GLoopGet
    \/ GLoopIsInitialized
    \/ GDirect
    \/ KVerify
    \/ ActorInitialized

SpecConnect == InitConnect /\ [][NextConnect]_vars

\* connectToExistingAgent has answered.
ConnectDone == op = "connectToExistingAgent" /\ pc = "done"

\* The answer is a success response carrying connection data.
ConnectSuccess ==
    /\ response.status = 200
    /\ \E protocol \in UrlProtocols :
         response.body = ConnectionData(WebsocketUrl(protocol, chatId), chatId)

\* No jurisdiction holds an initialized actor of the requested ID.
NoInitializedActor == \A jr \in Jurisdictions : ~initd[Handle(jr, chatId)]

\* The lookup threw: getAgentStub threw, or the isInitialized() call that
\* connectToExistingAgent makes on the returned stub threw.
LookupThrew ==
    \/ gerr # "none"
    \/ (calls # <<>> /\ calls[Len(calls)] = Call("isInitialized", gstub, "throw")
          /\ gstub # NoStub)

\* C31: connectToExistingAgent answers with a success response and connection
\* data only if its last call was isInitialized() on the located stub and the
\* actor answered true; when no jurisdiction holds an initialized actor of the
\* ID, or the lookup threw, the answer is 404 and never a success.
C31_ConnectOnlyToInitialized ==
    /\ response.status \in {0, 200, 400, 404}
    /\ ConnectDone <=> response.status # 0
    /\ response.status = 200 =>
          /\ ConnectSuccess
          /\ ~Falsy(chatId)
          /\ gerr = "none"
          /\ gstub \in {Handle(jr, chatId) : jr \in Jurisdictions}
          /\ calls[Len(calls)] = Call("isInitialized", gstub, "true")
          /\ initd[gstub]
    /\ (ConnectDone /\ ~Falsy(chatId) /\ (NoInitializedActor \/ LookupThrew)) =>
          /\ response.status = 404
          /\ ~ConnectSuccess
    /\ (ConnectDone /\ Falsy(chatId)) => response.status = 400 /\ calls = <<>>

\* The default jurisdiction held no initialized actor, the eu actor answered
\* true to the search and to the check, and the answer was a success.
C31_Witness ==
    /\ ConnectDone
    /\ ConnectSuccess
    /\ gstub = Handle("eu", SourceId)
    /\ ~initd[Handle("default", SourceId)]

====
